---- MODULE Spec2Model ----
(***************************************************************************)
(* Newsletter service (sky_chimp): the newsletter lifecycle (create, edit, *)
(* disable), the access-control mixins, the client registry and the        *)
(* delivery command, as a state machine over the relational store and the  *)
(* external scheduler's job store.                                         *)
(*                                                                         *)
(* app_newsletter/services.py, app_newsletter/models.py and                *)
(* permissions/authenticate.py are not part of the available sources; the  *)
(* definitions that stand for them follow the design document and are      *)
(* marked "design document" below.                                        *)
(***************************************************************************)
EXTENDS Integers, Sequences, FiniteSets, TLC

VARIABLES
    today,        \* datetime.now().date(), as a day number
    clients,      \* table clients: pk -> [email, created_by]
    newsletters,  \* table newsletters: pk -> row (with its m2m sets)
    jobs,         \* scheduler job store: newsletter key -> registered triggers
    log,          \* table NewsletterLog, in insertion order
    req,          \* the request being handled step by step (SpecSteps)
    cmd,          \* the running sendnewsletter command (SpecSend)
    last,         \* the last request handled and its outcome
    messages,     \* table messages: pk -> [subject, created_by]
    users,        \* table users: id -> [is_active, email_verified, is_staff, is_superuser]
    cache,        \* the cache backend: key -> the entry stored under it, if any
    settings,     \* the settings module: [CACHE_ENABLED]
    posts         \* table posts: pk -> [views_count]

vars == <<today, clients, newsletters, jobs, log, req, cmd, last,
          messages, users, cache, settings, posts>>

\* The state that the newsletter, client and command handlers never write.
site == <<messages, users, cache, settings, posts>>

----------------------------------------------------------------------------
(* Bounds *)

MaxDay == 2
MaxLog == 2
MaxClients == 3

NewsletterIds == {1, 2}
Dates == 1..(MaxDay + 1)

----------------------------------------------------------------------------
(* Users.  request.user is one of the registered users or AnonymousUser. *)

Users == {"u1", "u2", "mgr", "root"}
Anonymous == "anon"
Requesters == Users \cup {Anonymous}

\* request.user.is_staff / is_superuser: the flags of the user's row
\* (both False for AnonymousUser).
is_staff(u) == u \in DOMAIN users /\ users[u].is_staff
is_superuser(u) == u \in DOMAIN users /\ users[u].is_superuser
is_authenticated(u) == u \in Users

\* The users table the service starts with: two ordinary users, a manager
\* and the administrator, all active and verified.
SeedUsers ==
    [u \in Users |->
        [is_active |-> TRUE, email_verified |-> TRUE,
         is_staff |-> u \in {"mgr", "root"}, is_superuser |-> u = "root"]]

\* Message library rows the store starts with: pk -> created_by.
MessageIds == {"m1", "m2"}
message_created_by(m) == IF m = "m1" THEN "u1" ELSE "u2"

SeedMessages ==
    [m \in MessageIds |-> [subject |-> "s1", created_by |-> message_created_by(m)]]

\* CustomUser.get_clients / get_messages: the rows whose created_by is u.
get_clients(u) == {c \in DOMAIN clients : clients[c].created_by = u}
get_messages(u) == {m \in DOMAIN messages : messages[m].created_by = u}

----------------------------------------------------------------------------
(* Newsletter rows and the newsletter form *)

\* An optional field (null=True) is a set with at most one element.
None == {}

\* A submitted NewsletterCreateForm: time, finish_date, finish_time,
\* frequency, clients, messages.
Form(time, finish_date, finish_time, frequency, cs, ms) ==
    [time |-> time, finish_date |-> finish_date, finish_time |-> finish_time,
     frequency |-> frequency, clients |-> cs, messages |-> ms]

OneShot(cs, ms) == Form(1, None, None, "once", cs, ms)
Daily(d, cs, ms) == Form(2, {d}, {1}, "daily", cs, ms)

\* Variant: a finish date equal to the current date is accepted.
clean_finish_date_accepts_today(finish_date, now) ==
    ~(finish_date # None /\ \E d \in finish_date : d < now)

\* NewsletterCreateForm.clean_finish_date: the field is accepted unless a
\* finish date is given and is not later than the current date.
clean_finish_date(finish_date, now) ==
    ~(finish_date # None /\ \E d \in finish_date : d <= now)

\* NewsletterCreateForm.__init__: the querysets the clients and messages
\* fields accept.  With a user they are that user's rows; without one the
\* fields keep the model form's default, every row of the table.
form_clients_queryset(user) ==
    IF user # None THEN UNION {get_clients(u) : u \in user} ELSE DOMAIN clients
form_messages_queryset(user) ==
    IF user # None THEN UNION {get_messages(u) : u \in user} ELSE DOMAIN messages

\* form.is_valid() for NewsletterCreateForm built with kwargs user.
newsletter_form_is_valid(f, user) ==
    /\ clean_finish_date(f.finish_date, today)
    /\ f.clients \subseteq form_clients_queryset(user)
    /\ f.messages \subseteq form_messages_queryset(user)

exists(pk) == pk \in DOMAIN newsletters

\* Model.save() of a row under pk (insert or update of the whole row).
save(table, pk, row) ==
    [k \in (DOMAIN table) \cup {pk} |-> IF k = pk THEN row ELSE table[k]]

\* AutoField: the next primary key of the newsletters table.
next_pk == Cardinality(DOMAIN newsletters) + 1

----------------------------------------------------------------------------
(* Delivery service (design document, section 4.1) *)

\* The trigger specification create_task computes from time, frequency and
\* finish_date / finish_time.
trigger_of(n) ==
    [time |-> n.time, frequency |-> n.frequency,
     until |-> IF n.finish_date = None THEN None
               ELSE {<<d, t>> : d \in n.finish_date, t \in n.finish_time}]

\* create_task: registers one job keyed by the newsletter's identifier.
create_task(store, pk, n) ==
    [store EXCEPT ![pk] = Append(@, trigger_of(n))]

\* delete_task: removes any job registered under the newsletter's key.
delete_task(store, pk) ==
    [store EXCEPT ![pk] = << >>]

job_count(store, pk) == Len(store[pk])

\* send_mail_to_client: one send per (client, message) pair of the
\* newsletter's current sets; failing is the set of pairs whose send raises.
\* The result is the single NewsletterLog row of the attempt.
attempted_pairs(n) == n.clients \X n.messages

\* The order in which the pairs are gone through: by client, then message.
pair_before(p, q) ==
    \/ p[1] < q[1]
    \/ p[1] = q[1] /\ p[2] = "m1" /\ q[2] = "m2"

RECURSIVE mail_queue(_)
mail_queue(pairs) ==
    IF pairs = {} THEN << >>
    ELSE LET p == CHOOSE x \in pairs : \A y \in pairs \ {x} : pair_before(x, y)
         IN <<p>> \o mail_queue(pairs \ {p})

\* The loop of send_mail_to_client over the queued pairs: the transport is
\* called for the pair at the head; a failure of that call is recovered
\* locally and the loop goes on with the remaining pairs.  The result is the
\* set of pairs the transport was called for and whether a call failed.
RECURSIVE send_each(_, _)
send_each(queue, failing) ==
    IF queue = << >> THEN [attempted |-> {}, failed |-> FALSE]
    ELSE LET rest == send_each(Tail(queue), failing)
         IN [attempted |-> {Head(queue)} \cup rest.attempted,
             failed |-> Head(queue) \in failing \/ rest.failed]

mail_attempts(n, failing) ==
    send_each(mail_queue(attempted_pairs(n)), failing).attempted

send_mail_to_client(pk, failing) ==
    [newsletter |-> pk,
     status |-> IF attempted_pairs(newsletters[pk]) \cap failing # {}
                THEN "failure" ELSE "success",
     date_time |-> today]

----------------------------------------------------------------------------
(* Access-control mixins *)

\* AuthenticatedAccessMixin (design document, 4.3): a logged-in session.
authenticated_access(u) == is_authenticated(u)

\* Variant: the owner check also lets staff through.
check_creator_access_or_staff(obj, u) == obj.created_by = u \/ is_staff(u)

\* CreatorAccessMixin.check_creator_access
check_creator_access(obj, u) == obj.created_by = u

\* Variant: every logged-in user passes the owner-or-staff check.
check_access_any_user(obj, u) == obj.created_by = u \/ is_authenticated(u)

\* CombinedAccessMixin.check_access
check_access(obj, u) ==
    obj.created_by = u \/ is_staff(u) \/ is_superuser(u)

\* ActiveNewsletterMixin (design document, 4.2): only an active newsletter
\* may be edited or disabled.
active_newsletter_access(obj) == obj.is_active

----------------------------------------------------------------------------
(* Request bookkeeping *)

Handled(op, u, pk, outcome, fd, pre_jobs, pre_status) ==
    last' = [op |-> op, user |-> u, pk |-> pk, outcome |-> outcome,
             finish_date |-> fd, pre_jobs |-> pre_jobs, pre_status |-> pre_status]

\* A request that ends before the wrapped operation runs.
Refused(op, u, pk, outcome, fd) ==
    /\ Handled(op, u, pk, outcome, fd, 0, "-")
    /\ UNCHANGED <<newsletters, jobs>>


----------------------------------------------------------------------------
(* Newsletter views, each request handled in one step *)

\* form.save(commit=False) followed by created_by / status 'C' and save():
\* the new row, before its many-to-many sets are stored.
new_newsletter(u, f) ==
    [created_by |-> u, status |-> "C", is_active |-> TRUE,
     time |-> f.time, finish_date |-> f.finish_date,
     finish_time |-> f.finish_time, frequency |-> f.frequency,
     clients |-> {}, messages |-> {}]

\* form.save_m2m(): the selected clients and messages are stored.
save_m2m(n, f) == [n EXCEPT !.clients = f.clients, !.messages = f.messages]

\* form.save() of the edit form: the form's fields replace the instance's.
form_save(n, f) ==
    [n EXCEPT !.time = f.time, !.finish_date = f.finish_date,
              !.finish_time = f.finish_time, !.frequency = f.frequency,
              !.clients = f.clients, !.messages = f.messages]

\* No request is being handled step by step.
IdleReq ==
    [pc |-> "idle", user |-> Anonymous, pk |-> 0, form |-> OneShot({}, {}),
     newsletter |-> new_newsletter(Anonymous, OneShot({}, {}))]

\* Variant: the status is set to 'S' with the first save, before the job is
\* registered.
NewsletterCreateView_form_valid_scheduled_first(u, f, ok) ==
    LET pk == next_pk
        n == [save_m2m(new_newsletter(u, f), f) EXCEPT !.status = "S"]
    IN /\ pk \in NewsletterIds
       /\ newsletters' = save(newsletters, pk, n)
       /\ IF ok
          THEN /\ jobs' = create_task(jobs, pk, n)
               /\ Handled("create", u, pk, "ok", f.finish_date, 0, "-")
          ELSE /\ jobs' = jobs
               /\ Handled("create", u, pk, "error", f.finish_date, 0, "-")

\* NewsletterCreateView.form_valid.  ok: create_task returns (TRUE) or the
\* scheduler raises (FALSE) and the request ends with the rows saved so far.
NewsletterCreateView_form_valid(u, f, ok) ==
    LET pk == next_pk
        n == save_m2m(new_newsletter(u, f), f)
    IN /\ pk \in NewsletterIds
       /\ IF ok
          THEN /\ jobs' = create_task(jobs, pk, n)
               /\ newsletters' = save(newsletters, pk, [n EXCEPT !.status = "S"])
               /\ Handled("create", u, pk, "ok", f.finish_date, 0, "-")
          ELSE /\ jobs' = jobs
               /\ newsletters' = save(newsletters, pk, n)
               /\ Handled("create", u, pk, "error", f.finish_date, 0, "-")

\* Variant: the creation also sends the newsletter at once.
NewsletterCreateView_sends_at_once(u, f, ok) ==
    /\ IF ~authenticated_access(u)
       THEN ok /\ Refused("create", u, 0, "login", None) /\ log' = log
       ELSE IF ~newsletter_form_is_valid(f, {u})
       THEN ok /\ Refused("create", u, 0, "invalid", f.finish_date) /\ log' = log
       ELSE /\ NewsletterCreateView_form_valid(u, f, ok)
            /\ Len(log) < MaxLog
            /\ log' = Append(log, [newsletter |-> next_pk, status |-> "success",
                                   date_time |-> today])
    /\ UNCHANGED <<today, clients, req, cmd, site>>

NewsletterCreateView(u, f, ok) ==
    /\ IF ~authenticated_access(u)
       THEN ok /\ Refused("create", u, 0, "login", None)
       ELSE IF ~newsletter_form_is_valid(f, {u})
       THEN ok /\ Refused("create", u, 0, "invalid", f.finish_date)
       ELSE NewsletterCreateView_form_valid(u, f, ok)
    /\ UNCHANGED <<today, clients, log, req, cmd, site>>

\* Variant: the edit registers the new job without removing the old one.
NewsletterUpdateView_form_valid_keeps_job(u, pk, f, ok) ==
    LET n == form_save(newsletters[pk], f)
    IN /\ ok
       /\ jobs' = create_task(jobs, pk, n)
       /\ newsletters' = save(newsletters, pk, [n EXCEPT !.status = "S"])
       /\ Handled("update", u, pk, "ok", f.finish_date,
                  job_count(jobs, pk), newsletters[pk].status)

\* NewsletterUpdateView.form_valid
NewsletterUpdateView_form_valid(u, pk, f, ok) ==
    LET n == form_save(newsletters[pk], f)
        store == delete_task(jobs, pk)
        pre_jobs == job_count(jobs, pk)
        pre_status == newsletters[pk].status
    IN IF ok
       THEN /\ jobs' = create_task(store, pk, n)
            /\ newsletters' = save(newsletters, pk, [n EXCEPT !.status = "S"])
            /\ Handled("update", u, pk, "ok", f.finish_date, pre_jobs, pre_status)
       ELSE /\ jobs' = store
            /\ newsletters' = save(newsletters, pk, n)
            /\ Handled("update", u, pk, "error", f.finish_date, pre_jobs, pre_status)

\* NewsletterUpdateView: CreatorAccessMixin.dispatch, then
\* ActiveNewsletterMixin, then UpdateView.post with the form built without
\* a user (get_form_kwargs is not overridden).
NewsletterUpdateView(u, pk, f, ok) ==
    /\ IF ~exists(pk)
       THEN ok /\ Refused("update", u, pk, "404", None)
       ELSE IF ~check_creator_access(newsletters[pk], u)
       THEN ok /\ Refused("update", u, pk, "forbidden", None)
       ELSE IF ~active_newsletter_access(newsletters[pk])
       THEN ok /\ Refused("update", u, pk, "inactive", None)
       ELSE IF ~newsletter_form_is_valid(f, None)
       THEN ok /\ Refused("update", u, pk, "invalid", f.finish_date)
       ELSE NewsletterUpdateView_form_valid(u, pk, f, ok)
    /\ UNCHANGED <<today, clients, log, req, cmd, site>>

\* Variant: the disable does not call delete_task.
NewsletterDeleteView_form_valid_keeps_job(u, pk) ==
    /\ jobs' = jobs
    /\ newsletters' = save(newsletters, pk, [newsletters[pk] EXCEPT !.is_active = FALSE])
    /\ Handled("disable", u, pk, "ok", None, job_count(jobs, pk), newsletters[pk].status)

\* Variant: DeleteView's own form_valid, which deletes the row.
NewsletterDeleteView_form_valid_deletes_row(u, pk) ==
    /\ jobs' = delete_task(jobs, pk)
    /\ newsletters' = [k \in (DOMAIN newsletters) \ {pk} |-> newsletters[k]]
    /\ Handled("disable", u, pk, "ok", None, job_count(jobs, pk), newsletters[pk].status)

\* Variant: the disable also marks the newsletter as created again.
NewsletterDeleteView_form_valid_resets_status(u, pk) ==
    /\ jobs' = delete_task(jobs, pk)
    /\ newsletters' = save(newsletters, pk,
                           [newsletters[pk] EXCEPT !.is_active = FALSE, !.status = "C"])
    /\ Handled("disable", u, pk, "ok", None, job_count(jobs, pk), newsletters[pk].status)

\* NewsletterDeleteView.form_valid
NewsletterDeleteView_form_valid(u, pk) ==
    LET newsletter == newsletters[pk]
    IN /\ jobs' = delete_task(jobs, pk)
       /\ newsletters' = save(newsletters, pk, [newsletter EXCEPT !.is_active = FALSE])
       /\ Handled("disable", u, pk, "ok", None, job_count(jobs, pk), newsletter.status)

\* Variant: the disable also removes the newsletter's log rows.
NewsletterDeleteView_clears_log(u, pk) ==
    /\ IF ~exists(pk)
       THEN Refused("disable", u, pk, "404", None) /\ log' = log
       ELSE IF ~check_access(newsletters[pk], u)
       THEN Refused("disable", u, pk, "forbidden", None) /\ log' = log
       ELSE IF ~active_newsletter_access(newsletters[pk])
       THEN Refused("disable", u, pk, "inactive", None) /\ log' = log
       ELSE /\ NewsletterDeleteView_form_valid(u, pk)
            /\ log' = SelectSeq(log, LAMBDA row : row.newsletter # pk)
    /\ UNCHANGED <<today, clients, req, cmd, site>>

\* NewsletterDeleteView: CombinedAccessMixin.dispatch, then
\* ActiveNewsletterMixin, then DeleteView.post (its form is always valid).
NewsletterDeleteView(u, pk) ==
    /\ IF ~exists(pk)
       THEN Refused("disable", u, pk, "404", None)
       ELSE IF ~check_access(newsletters[pk], u)
       THEN Refused("disable", u, pk, "forbidden", None)
       ELSE IF ~active_newsletter_access(newsletters[pk])
       THEN Refused("disable", u, pk, "inactive", None)
       ELSE NewsletterDeleteView_form_valid(u, pk)
    /\ UNCHANGED <<today, clients, log, req, cmd, site>>

\* NewsletterDetailView: CombinedAccessMixin.dispatch, then the page.
NewsletterDetailView(u, pk) ==
    /\ IF ~exists(pk)
       THEN Refused("detail", u, pk, "404", None)
       ELSE IF ~check_access(newsletters[pk], u)
       THEN Refused("detail", u, pk, "forbidden", None)
       ELSE Refused("detail", u, pk, "shown", None)
    /\ UNCHANGED <<today, clients, log, req, cmd, site>>

\* NewsletterListView: AuthenticatedAccessMixin, then the page.
NewsletterListView(u) ==
    /\ IF ~authenticated_access(u)
       THEN Refused("list", u, 0, "login", None)
       ELSE Refused("list", u, 0, "shown", None)
    /\ UNCHANGED <<today, clients, log, req, cmd, site>>

\* No sendnewsletter command is running.
IdleCmd ==
    [pc |-> "idle", ids |-> << >>, i |-> 0, out |-> << >>, failing |-> {},
     attempted |-> {}]

\* manage.py sendnewsletter id ...: the command starts with its ids.
sendnewsletter(ids) ==
    /\ cmd.pc # "running"
    /\ cmd' = [pc |-> "running", ids |-> ids, i |-> 1, out |-> << >>, failing |-> {},
               attempted |-> {}]
    /\ Handled("sendnewsletter", Anonymous, 0, "started", None, 0, "-")
    /\ UNCHANGED <<today, clients, newsletters, jobs, log, req, site>>

\* Variant: every iteration sends the newsletter of the first id.
Command_handle_first_id(failing) ==
    LET id == cmd.ids[1]
    IN /\ cmd.pc = "running"
       /\ exists(id)
       /\ Len(log) < MaxLog
       /\ log' = Append(log, send_mail_to_client(id, failing))
       /\ cmd' = [cmd EXCEPT !.i = @ + 1, !.out = Append(@, cmd.ids[cmd.i]),
                             !.failing = failing,
                             !.attempted = mail_attempts(newsletters[id], failing),
                             !.pc = IF cmd.i = Len(cmd.ids) THEN "done" ELSE "running"]
       /\ Handled("sendnewsletter", Anonymous, cmd.ids[cmd.i], "ok", None, 0, "-")
       /\ UNCHANGED <<today, clients, newsletters, jobs, req, site>>

\* Variant: a transport failure inside send_mail_to_client reaches the
\* command, which ends without the success line.
Command_handle_raises_on_failure(failing) ==
    LET id == cmd.ids[cmd.i]
        raised == exists(id) /\ attempted_pairs(newsletters[id]) \cap failing # {}
    IN /\ cmd.pc = "running"
       /\ IF exists(id)
          THEN /\ Len(log) < MaxLog
               /\ log' = Append(log, send_mail_to_client(id, failing))
               /\ cmd' = [cmd EXCEPT !.i = IF raised THEN @ ELSE @ + 1,
                                     !.out = IF raised THEN @ ELSE Append(@, id),
                                     !.failing = failing,
                                     !.attempted = mail_attempts(newsletters[id], failing),
                                     !.pc = IF raised THEN "error"
                                            ELSE IF cmd.i = Len(cmd.ids)
                                            THEN "done" ELSE "running"]
               /\ Handled("sendnewsletter", Anonymous, id,
                          IF raised THEN "error" ELSE "ok", None, 0, "-")
          ELSE /\ failing = {}
               /\ log' = log
               /\ cmd' = [cmd EXCEPT !.pc = "error", !.failing = {}, !.attempted = {}]
               /\ Handled("sendnewsletter", Anonymous, id, "error", None, 0, "-")
       /\ UNCHANGED <<today, clients, newsletters, jobs, req, site>>

\* Variant: an id without a newsletter is skipped and the loop goes on.
Command_handle_skips_missing(failing) ==
    LET id == cmd.ids[cmd.i]
    IN /\ cmd.pc = "running"
       /\ IF exists(id)
          THEN /\ Len(log) < MaxLog
               /\ log' = Append(log, send_mail_to_client(id, failing))
               /\ cmd' = [cmd EXCEPT !.i = @ + 1, !.out = Append(@, id),
                                     !.failing = failing,
                                     !.attempted = mail_attempts(newsletters[id], failing),
                                     !.pc = IF cmd.i = Len(cmd.ids)
                                            THEN "done" ELSE "running"]
               /\ Handled("sendnewsletter", Anonymous, id, "ok", None, 0, "-")
          ELSE /\ failing = {}
               /\ log' = log
               /\ cmd' = [cmd EXCEPT !.i = @ + 1, !.failing = {}, !.attempted = {},
                                     !.pc = IF cmd.i = Len(cmd.ids)
                                            THEN "done" ELSE "running"]
               /\ Handled("sendnewsletter", Anonymous, id, "error", None, 0, "-")
       /\ UNCHANGED <<today, clients, newsletters, jobs, req, site>>

\* Command.handle, one iteration of its loop over options['newsletter_id']:
\* the newsletter is fetched, send_mail_to_client runs and the success line
\* is written; Newsletter.DoesNotExist ends the command with CommandError.
Command_handle(failing) ==
    LET id == cmd.ids[cmd.i]
    IN /\ cmd.pc = "running"
       /\ IF exists(id)
          THEN /\ Len(log) < MaxLog
               /\ log' = Append(log, send_mail_to_client(id, failing))
               /\ cmd' = [cmd EXCEPT !.i = @ + 1, !.out = Append(@, id),
                                     !.failing = failing,
                                     !.attempted = mail_attempts(newsletters[id], failing),
                                     !.pc = IF cmd.i = Len(cmd.ids)
                                            THEN "done" ELSE "running"]
               /\ Handled("sendnewsletter", Anonymous, id, "ok", None, 0, "-")
          ELSE /\ failing = {}
               /\ log' = log
               /\ cmd' = [cmd EXCEPT !.pc = "error", !.failing = {}, !.attempted = {}]
               /\ Handled("sendnewsletter", Anonymous, id, "error", None, 0, "-")
       /\ UNCHANGED <<today, clients, newsletters, jobs, req, site>>

\* The date changes.
Midnight ==
    /\ today < MaxDay
    /\ today' = today + 1
    /\ Handled("midnight", Anonymous, 0, "ok", None, 0, "-")
    /\ UNCHANGED <<clients, newsletters, jobs, log, req, cmd, site>>

----------------------------------------------------------------------------------------------------------------------------------------
(* Spec: the newsletter lifecycle and its access control, one request at *)
(* a time.  The store starts with two clients, one per ordinary user,    *)
(* and no newsletter; the date does not change.                          *)

SeedClients ==
    [c \in {1, 2} |->
        IF c = 1 THEN [email |-> "a@x", created_by |-> "u1"]
                 ELSE [email |-> "a@x", created_by |-> "u2"]]

NoRequest ==
    [op |-> "none", user |-> Anonymous, pk |-> 0, outcome |-> "ok",
     finish_date |-> None, pre_jobs |-> 0, pre_status |-> "-"]

\* The cache keys of the main-page counters, and a cache with no entry.
CacheKeys == {"total_newsletter", "active_newsletters", "unique_clients"}
EmptyCache == [k \in CacheKeys |-> None]

\* Two blog posts that nobody has read yet (views_count at its default).
SeedPosts == [pk \in {1, 2} |-> [views_count |-> 0]]

\* The seeded users, messages and posts, an empty cache, caching enabled.
InitSite ==
    /\ messages = SeedMessages
    /\ users = SeedUsers
    /\ cache = EmptyCache
    /\ settings = [CACHE_ENABLED |-> TRUE]
    /\ posts = SeedPosts

Init ==
    /\ today = 1
    /\ clients = SeedClients
    /\ newsletters = << >>
    /\ jobs = [k \in NewsletterIds |-> << >>]
    /\ log = << >>
    /\ req = IdleReq
    /\ cmd = IdleCmd
    /\ last = NoRequest
    /\ InitSite

\* The forms submitted in Spec: a one-shot newsletter to u1's client and
\* message, a daily one to u2's that finishes tomorrow, and a daily one that
\* finishes today (rejected by the form).
LifecycleForms ==
    {OneShot({1}, {"m1"}), Daily(2, {2}, {"m2"}), Daily(1, {1}, {"m1"})}

Next ==
    \/ \E u \in Requesters, f \in LifecycleForms, ok \in BOOLEAN :
           NewsletterCreateView(u, f, ok)
    \/ \E u \in Requesters, pk \in NewsletterIds, f \in LifecycleForms, ok \in BOOLEAN :
           NewsletterUpdateView(u, pk, f, ok)
    \/ \E u \in Requesters, pk \in NewsletterIds : NewsletterDeleteView(u, pk)
    \/ \E u \in Requesters, pk \in NewsletterIds : NewsletterDetailView(u, pk)
    \/ \E u \in Requesters : NewsletterListView(u)

Spec == Init /\ [][Next]_vars

----------------------------------------------------------------------------
(* Properties of Spec *)

Changed(pk) ==
    \/ (pk \in DOMAIN newsletters) # (pk \in DOMAIN newsletters')
    \/ (pk \in DOMAIN newsletters /\ pk \in DOMAIN newsletters'
            /\ newsletters'[pk] # newsletters[pk])
    \/ jobs'[pk] # jobs[pk]

OthersUntouched(pk) == \A k \in NewsletterIds \ {pk} : ~Changed(k)

\* C1: a successful edit ends with exactly one job under the newsletter's
\* key, the one computed from the edited fields (no older job is left), and
\* with status 'S', whatever the status and the job count were before.
C1_EditReplacesJob ==
    (last.op = "update" /\ last.outcome = "ok") =>
        /\ exists(last.pk)
        /\ job_count(jobs, last.pk) = 1
        /\ jobs[last.pk] = <<trigger_of(newsletters[last.pk])>>
        /\ newsletters[last.pk].status = "S"

C1_Witness ==
    /\ last.op = "update" /\ last.outcome = "ok"
    /\ last.pre_jobs = 1
    /\ job_count(jobs, last.pk) = 1
    /\ newsletters[last.pk].status = "S"

\* The same edit on a newsletter left without a job and with status 'C'.
C1_WitnessNoJob ==
    /\ last.op = "update" /\ last.outcome = "ok"
    /\ last.pre_jobs = 0 /\ last.pre_status = "C"
    /\ job_count(jobs, last.pk) = 1

\* What C3 requires of every step.
C3_UpdateGuard ==
    /\ last'.op = "update" /\ (\E k \in NewsletterIds : Changed(k)) =>
           /\ exists(last'.pk)
           /\ newsletters[last'.pk].created_by = last'.user
           /\ newsletters[last'.pk].is_active
           /\ OthersUntouched(last'.pk)
    /\ (/\ last'.op = "update" /\ exists(last'.pk)
        /\ ~(newsletters[last'.pk].created_by = last'.user
                /\ newsletters[last'.pk].is_active)) =>
           /\ last'.outcome \in {"forbidden", "inactive"}
           /\ newsletters' = newsletters /\ jobs' = jobs

\* C3: an update request changes a newsletter or its job only if the
\* requester is the creator and the newsletter is active; every other update
\* request for an existing newsletter is redirected and changes nothing.
C3_UpdateOnlyByActiveCreator == [][C3_UpdateGuard]_vars

\* A staff user's update of another user's active newsletter was redirected.
C3_Witness ==
    /\ last.op = "update" /\ last.outcome = "forbidden"
    /\ is_staff(last.user)
    /\ newsletters[last.pk].is_active
    /\ job_count(jobs, last.pk) = 1

\* What C4 requires of every step.
C4_DisableGuard ==
    /\ last'.op = "disable" /\ (\E k \in NewsletterIds : Changed(k)) =>
           /\ exists(last'.pk)
           /\ \/ newsletters[last'.pk].created_by = last'.user
              \/ is_staff(last'.user)
              \/ is_superuser(last'.user)
           /\ newsletters[last'.pk].is_active
           /\ OthersUntouched(last'.pk)
    /\ (/\ last'.op = "disable" /\ exists(last'.pk)
        /\ ~(/\ \/ newsletters[last'.pk].created_by = last'.user
                \/ is_staff(last'.user)
                \/ is_superuser(last'.user)
             /\ newsletters[last'.pk].is_active)) =>
           /\ last'.outcome \in {"forbidden", "inactive"}
           /\ newsletters' = newsletters /\ jobs' = jobs

\* C4: a disable request takes effect only if the requester is the creator,
\* staff or superuser and the newsletter is active; every other disable
\* request is redirected and leaves is_active, status and the job unchanged.
C4_DisableOnlyByOwnerOrStaff == [][C4_DisableGuard]_vars

\* Another ordinary user's disable of an active, scheduled newsletter was
\* redirected.
C4_Witness ==
    /\ last.op = "disable" /\ last.outcome = "forbidden"
    /\ last.user \in Users
    /\ newsletters[last.pk].is_active
    /\ job_count(jobs, last.pk) = 1

\* What C6 requires of every step.
C6_DeleteTaskStep ==
    /\ \A pk \in DOMAIN newsletters :
           /\ job_count(delete_task(jobs, pk), pk) = 0
           /\ job_count(delete_task(create_task(jobs, pk, newsletters[pk]), pk), pk) = 0
           /\ job_count(jobs, pk) = 0 => delete_task(jobs, pk) = jobs
    /\ (last'.op = "disable" /\ last'.outcome = "ok") =>
           /\ job_count(jobs', last'.pk) = 0
           /\ job_count(jobs, last'.pk) = 0 => jobs' = jobs
           /\ \A k \in NewsletterIds \ {last'.pk} : jobs'[k] = jobs[k]
    /\ (/\ last'.op = "disable" /\ exists(last'.pk)
        /\ check_access(newsletters[last'.pk], last'.user)
        /\ newsletters[last'.pk].is_active) => last'.outcome = "ok"

\* C6: delete_task leaves no job under the newsletter's key, whether one
\* was registered or not (also right after create_task), and leaves the job
\* store as it was when none was registered; the disable that calls it on a
\* newsletter without a job completes.
C6_DeleteTaskRemovesJob == [][C6_DeleteTaskStep]_vars

\* A disable completed on a newsletter that had no job.
C6_Witness ==
    /\ last.op = "disable" /\ last.outcome = "ok"
    /\ last.pre_jobs = 0
    /\ job_count(jobs, last.pk) = 0

\* What C7 requires of every step.
C7_NoRowRemoved ==
    /\ DOMAIN newsletters \subseteq DOMAIN newsletters'
    /\ (last'.op = "disable" /\ last'.outcome = "ok") =>
           /\ last'.pk \in DOMAIN newsletters'
           /\ ~newsletters'[last'.pk].is_active

C30_RegistrationStep ==
    /\ (last'.op = "create" /\ last'.outcome = "error") =>
           /\ ~exists(last'.pk)
           /\ last'.pk \in DOMAIN newsletters'
           /\ newsletters'[last'.pk].status = "C"
           /\ newsletters'[last'.pk].created_by = last'.user
           /\ job_count(jobs', last'.pk) = 0
           /\ \A pk \in DOMAIN newsletters : newsletters'[pk] = newsletters[pk]
    /\ \A pk \in DOMAIN newsletters' :
           (/\ newsletters'[pk].status = "S"
            /\ ~(exists(pk) /\ newsletters[pk].status = "S")) =>
               /\ last'.op \in {"create", "update"}
               /\ last'.pk = pk
               /\ last'.outcome = "ok"
               /\ jobs'[pk] = <<trigger_of(newsletters'[pk])>>

\* C30: a creation whose create_task fails leaves the new newsletter stored
\* with status 'C' and no job under its key; a newsletter comes to have
\* status 'S' only in a creation or an edit of it whose create_task
\* returned, which leaves its job registered.
C30_ScheduledOnlyAfterCreateTask == [][C30_RegistrationStep]_vars

\* The scheduler refused the job of a new newsletter with a client and a
\* message: the newsletter is stored as created, without a job.
C30_Witness ==
    /\ last.op = "create" /\ last.outcome = "error"
    /\ exists(last.pk)
    /\ newsletters[last.pk].status = "C"
    /\ newsletters[last.pk].clients # {}
    /\ job_count(jobs, last.pk) = 0

\* A newsletter whose job was refused at creation was scheduled by a later
\* edit.
C30_WitnessEdited ==
    /\ last.op = "update" /\ last.outcome = "ok" /\ last.pre_status = "C"
    /\ newsletters[last.pk].status = "S"
    /\ job_count(jobs, last.pk) = 1

\* C24: in every reachable state every client and every message attached
\* to a newsletter was created by the newsletter's creator.
C24_OwnClientsAndMessages ==
    \A pk \in DOMAIN newsletters :
        /\ \A c \in newsletters[pk].clients :
               c \in DOMAIN clients /\ clients[c].created_by = newsletters[pk].created_by
        /\ \A m \in newsletters[pk].messages :
               m \in DOMAIN messages
               /\ messages[m].created_by = newsletters[pk].created_by

----------------------------------------------------------------------------
(* SpecForm: one user creates and edits newsletters while the date       *)
(* advances; the submitted finish dates range over every date up to the  *)
(* day after the last one.                                               *)

DatedForms ==
    {OneShot({1}, {"m1"})} \cup {Daily(d, {1}, {"m1"}) : d \in Dates}

NextForm ==
    \/ \E f \in DatedForms, ok \in BOOLEAN : NewsletterCreateView("u1", f, ok)
    \/ \E pk \in NewsletterIds, f \in DatedForms, ok \in BOOLEAN :
           NewsletterUpdateView("u1", pk, f, ok)
    \/ Midnight

SpecForm == Init /\ [][NextForm]_vars

\* What C8 requires of every step.
C8_FormStep ==
    (last'.op \in {"create", "update"} /\ last'.outcome \in {"invalid", "ok", "error"}) =>
        /\ last'.outcome = "invalid" <=>
               (last'.finish_date # {} /\ \A d \in last'.finish_date : d <= today)
        /\ last'.outcome = "invalid" => newsletters' = newsletters /\ jobs' = jobs

\* C8: a create or edit submission whose other fields are acceptable is
\* rejected exactly when its finish_date is present and on or before the
\* current date, and a rejected submission changes no newsletter and no job.
C8_FinishDateMustBeFuture == [][C8_FormStep]_vars

\* An edit that resubmits the stored finish date on that very date is
\* rejected, and the newsletter keeps its job.
C8_Witness ==
    /\ last.op = "update" /\ last.outcome = "invalid"
    /\ last.finish_date = {today}
    /\ newsletters[last.pk].finish_date = {today}
    /\ job_count(jobs, last.pk) = 1

----------------------------------------------------------------------------
(* SpecSteps: NewsletterCreateView.post, one statement of form_valid per *)
(* step.  req holds the handler's position and its local variables        *)
(* (the form and the in-memory newsletter).                               *)

\* A row save of the in-memory instance: the columns are written, the
\* many-to-many sets stay as stored.
save_instance(table, pk, obj) ==
    save(table, pk,
         IF pk \in DOMAIN table
         THEN [obj EXCEPT !.clients = table[pk].clients, !.messages = table[pk].messages]
         ELSE obj)

\* Variant: the job is registered together with the first save.
NewsletterCreateView_post_registers_job(u, f) ==
    LET pk == next_pk
        obj == new_newsletter(u, f)
    IN /\ req.pc = "idle"
       /\ authenticated_access(u) /\ newsletter_form_is_valid(f, {u})
       /\ pk \in NewsletterIds
       /\ newsletters' = save_instance(newsletters, pk, obj)
       /\ jobs' = create_task(jobs, pk, obj)
       /\ req' = [pc |-> "saved", user |-> u, pk |-> pk, form |-> f, newsletter |-> obj]
       /\ UNCHANGED <<today, clients, log, cmd, last, site>>

\* NewsletterCreateView.post up to the first newsletter.save(): the access
\* check, form validation, form.save(commit=False), created_by, status 'C'.
NewsletterCreateView_post(u, f) ==
    LET pk == next_pk
        obj == new_newsletter(u, f)
    IN /\ req.pc = "idle"
       /\ IF ~authenticated_access(u)
          THEN Refused("create", u, 0, "login", None) /\ UNCHANGED req
          ELSE IF ~newsletter_form_is_valid(f, {u})
          THEN Refused("create", u, 0, "invalid", f.finish_date) /\ UNCHANGED req
          ELSE /\ pk \in NewsletterIds
               /\ newsletters' = save_instance(newsletters, pk, obj)
               /\ req' = [pc |-> "saved", user |-> u, pk |-> pk, form |-> f,
                          newsletter |-> obj]
               /\ UNCHANGED <<jobs, last>>
       /\ UNCHANGED <<today, clients, log, cmd, site>>

\* form.save_m2m()
NewsletterCreateView_save_m2m ==
    /\ req.pc = "saved"
    /\ newsletters' = save(newsletters, req.pk, save_m2m(newsletters[req.pk], req.form))
    /\ req' = [req EXCEPT !.pc = "m2m_saved",
                          !.newsletter = save_m2m(req.newsletter, req.form)]
    /\ UNCHANGED <<today, clients, jobs, log, cmd, last, site>>

\* delivery_service.create_task(): returns, or raises and ends the request.
NewsletterCreateView_create_task(ok) ==
    /\ req.pc = "m2m_saved"
    /\ IF ok
       THEN /\ jobs' = create_task(jobs, req.pk, req.newsletter)
            /\ req' = [req EXCEPT !.pc = "registered"]
            /\ UNCHANGED last
       ELSE /\ jobs' = jobs
            /\ req' = IdleReq
            /\ Handled("create", req.user, req.pk, "error", req.form.finish_date, 0, "-")
    /\ UNCHANGED <<today, clients, newsletters, log, cmd, site>>

\* newsletter.status = 'S'; newsletter.save(); the redirect.
NewsletterCreateView_set_scheduled ==
    /\ req.pc = "registered"
    /\ newsletters' = save_instance(newsletters, req.pk,
                                    [req.newsletter EXCEPT !.status = "S"])
    /\ req' = IdleReq
    /\ Handled("create", req.user, req.pk, "ok", req.form.finish_date, 0, "-")
    /\ UNCHANGED <<today, clients, jobs, log, cmd, site>>

NextSteps ==
    \/ \E u \in Requesters, f \in LifecycleForms : NewsletterCreateView_post(u, f)
    \/ NewsletterCreateView_save_m2m
    \/ \E ok \in BOOLEAN : NewsletterCreateView_create_task(ok)
    \/ NewsletterCreateView_set_scheduled

SpecSteps == Init /\ [][NextSteps]_vars

\* C2: a creation first persists the newsletter with status 'C' and
\* created_by the requesting user; a job exists under a key only once the
\* newsletter and its clients and messages are stored; a creation that
\* completes leaves status 'S' and exactly one job under the key.
C2_CreateOrder ==
    /\ \A pk \in NewsletterIds : job_count(jobs, pk) > 0 => exists(pk)
    /\ req.pc # "idle" =>
           /\ exists(req.pk)
           /\ newsletters[req.pk].created_by = req.user
           /\ newsletters[req.pk].status = "C"
           /\ job_count(jobs, req.pk) > 0 =>
                  /\ newsletters[req.pk].clients = req.form.clients
                  /\ newsletters[req.pk].messages = req.form.messages
           /\ req.pc \in {"saved", "m2m_saved"} => job_count(jobs, req.pk) = 0
    /\ (req.pc = "idle" /\ last.op = "create" /\ last.outcome = "ok") =>
           /\ exists(last.pk)
           /\ newsletters[last.pk].status = "S"
           /\ newsletters[last.pk].created_by = last.user
           /\ job_count(jobs, last.pk) = 1
           /\ jobs[last.pk] = <<trigger_of(newsletters[last.pk])>>

\* A creation completed for a newsletter with a client and a message.
C2_Witness ==
    /\ req.pc = "idle" /\ last.op = "create" /\ last.outcome = "ok"
    /\ newsletters[last.pk].status = "S"
    /\ newsletters[last.pk].clients # {}
    /\ newsletters[last.pk].messages # {}
    /\ job_count(jobs, last.pk) = 1

----------------------------------------------------------------------------
(* SpecClient: the client registry, from an empty clients table *)

Emails == {"a@x", "b@x"}

\* A submitted ClientCreateForm: the email, and whether the required
\* first_name and last_name are filled in.
ClientForms == [email : Emails, names : BOOLEAN]

\* AutoField of the clients table (no row of it is deleted here).
next_client_pk == Cardinality(DOMAIN clients) + 1

\* Variant: the duplicate check looks at the email alone.
clean_email_any_owner(email, user) ==
    \A u \in user : \A c \in DOMAIN clients : clients[c].email # email

\* ClientCreateForm.clean_email: with a user, no client of that user has
\* the email; without a user nothing is checked.
clean_email(email, user) ==
    \A u \in user :
        ~\E c \in DOMAIN clients :
            clients[c].created_by = u /\ clients[c].email = email

\* form.errors of a ClientCreateForm built with kwargs user.
client_form_errors(f, user) ==
    (IF clean_email(f.email, user) THEN {} ELSE {"email"})
    \cup (IF f.names THEN {} ELSE {"names"})

ClientHandled(op, u, pk, outcome, f, errors) ==
    last' = [op |-> op, user |-> u, pk |-> pk, outcome |-> outcome,
             email |-> f.email, errors |-> errors]

\* ClientCreateView.form_valid
ClientCreateView_form_valid(u, f) ==
    LET pk == next_client_pk
    IN /\ pk <= MaxClients
       /\ clients' = save(clients, pk, [email |-> f.email, created_by |-> u])
       /\ ClientHandled("client_create", u, pk, "ok", f, {})

\* ClientCreateView: AuthenticatedAccessMixin, then CreateView.post with
\* the form built with user = request.user.
ClientCreateView(u, f) ==
    /\ IF ~authenticated_access(u)
       THEN /\ ClientHandled("client_create", u, 0, "login", f, {})
            /\ UNCHANGED clients
       ELSE IF client_form_errors(f, {u}) # {}
       THEN /\ ClientHandled("client_create", u, 0, "invalid", f,
                             client_form_errors(f, {u}))
            /\ UNCHANGED clients
       ELSE ClientCreateView_form_valid(u, f)
    /\ UNCHANGED <<today, newsletters, jobs, log, req, cmd, site>>

\* ClientUpdateView.form_valid
ClientUpdateView_form_valid(u, pk, f) ==
    /\ clients' = save(clients, pk, [clients[pk] EXCEPT !.email = f.email])
    /\ ClientHandled("client_update", u, pk, "ok", f, {})

\* ClientUpdateView: CreatorAccessMixin.dispatch, then UpdateView.post with
\* the form built without a user (get_form_kwargs is not overridden).
ClientUpdateView(u, pk, f) ==
    /\ IF pk \notin DOMAIN clients
       THEN /\ ClientHandled("client_update", u, pk, "404", f, {})
            /\ UNCHANGED clients
       ELSE IF ~check_creator_access(clients[pk], u)
       THEN /\ ClientHandled("client_update", u, pk, "forbidden", f, {})
            /\ UNCHANGED clients
       ELSE IF client_form_errors(f, None) # {}
       THEN /\ ClientHandled("client_update", u, pk, "invalid", f,
                             client_form_errors(f, None))
            /\ UNCHANGED clients
       ELSE ClientUpdateView_form_valid(u, pk, f)
    /\ UNCHANGED <<today, newsletters, jobs, log, req, cmd, site>>

InitClient ==
    /\ today = 1
    /\ clients = << >>
    /\ newsletters = << >>
    /\ jobs = [k \in NewsletterIds |-> << >>]
    /\ log = << >>
    /\ req = IdleReq
    /\ cmd = IdleCmd
    /\ last = [op |-> "none", user |-> Anonymous, pk |-> 0, outcome |-> "ok",
               email |-> "a@x", errors |-> {}]
    /\ InitSite

ClientUsers == {"u1", "u2", Anonymous}

NextClient ==
    \/ \E u \in ClientUsers, f \in ClientForms : ClientCreateView(u, f)
    \/ \E u \in ClientUsers, pk \in 1..MaxClients, f \in ClientForms :
           ClientUpdateView(u, pk, f)

SpecClient == InitClient /\ [][NextClient]_vars

\* What C9 requires of every step.
C9_CreateStep ==
    (last'.op = "client_create" /\ last'.user \in Users) =>
        LET dup == \E c \in DOMAIN clients :
                       /\ clients[c].email = last'.email
                       /\ clients[c].created_by = last'.user
        IN /\ ("email" \in last'.errors) <=> dup
           /\ dup => last'.outcome = "invalid" /\ clients' = clients
           /\ last'.outcome = "invalid" => clients' = clients
           /\ (~dup /\ last'.errors = {}) =>
                  /\ last'.outcome = "ok"
                  /\ DOMAIN clients' = DOMAIN clients \cup {last'.pk}
                  /\ last'.pk \notin DOMAIN clients
                  /\ clients'[last'.pk] = [email |-> last'.email,
                                           created_by |-> last'.user]
                  /\ \A c \in DOMAIN clients : clients'[c] = clients[c]

\* C9: a client creation by a logged-in user U with email E carries the
\* duplicate-email error exactly when a client with email E created by U is
\* stored; with no such client (the email may be another owner's) and the
\* names given, a client (E, U) is added; a rejected creation adds nothing.
C9_DuplicatePerOwner == [][C9_CreateStep]_vars

\* A client was created with an email that another owner's client has.
C9_Witness ==
    /\ last.op = "client_create" /\ last.outcome = "ok"
    /\ \E c \in DOMAIN clients :
           /\ c # last.pk
           /\ clients[c].email = last.email
           /\ clients[c].created_by # last.user

\* A creation was rejected as a duplicate of the same owner's client.
C9_WitnessRejected ==
    /\ last.op = "client_create" /\ last.outcome = "invalid"
    /\ "email" \in last.errors
    /\ \E c \in DOMAIN clients :
           clients[c].email = last.email /\ clients[c].created_by = last.user

\* C23: in every reachable state no two clients with the same created_by
\* have the same email, after any sequence of client creations and updates.
C23_EmailUniquePerOwner ==
    \A c, d \in DOMAIN clients :
        (c # d /\ clients[c].created_by = clients[d].created_by)
            => clients[c].email # clients[d].email

----------------------------------------------------------------------------
(* SpecSend: u1 creates, edits and disables newsletters with zero to two *)
(* clients and messages while the sendnewsletter command runs.           *)

SendForms ==
    {OneShot({}, {}), OneShot({1}, {"m1"}), OneShot({1, 2}, {"m1", "m2"})}

\* The (client, message) pairs whose send raises, per invocation.
FailingSets == {{}, {<<2, "m2">>}, {1, 2} \X MessageIds}

\* The id lists given on the command line: one or two ids, each the id of
\* a newsletter or of none yet.
IdLists == UNION {[1..n -> NewsletterIds] : n \in {1, 2}}

NextSend ==
    \/ \E f \in SendForms : NewsletterCreateView("u1", f, TRUE)
    \/ \E pk \in NewsletterIds :
           NewsletterUpdateView("u1", pk, OneShot({1, 2}, {"m1", "m2"}), TRUE)
    \/ \E pk \in NewsletterIds : NewsletterDeleteView("u1", pk)
    \/ \E ids \in IdLists : sendnewsletter(ids)
    \/ \E failing \in FailingSets : Command_handle(failing)

SpecSend == Init /\ [][NextSend]_vars

\* What C5 requires of every step.
C5_DisableStep ==
    (last'.op = "disable" /\ last'.outcome = "ok") =>
        LET pk == last'.pk
        IN /\ pk \in DOMAIN newsletters /\ pk \in DOMAIN newsletters'
           /\ ~newsletters'[pk].is_active
           /\ job_count(jobs', pk) = 0
           /\ newsletters'[pk].status = newsletters[pk].status
           /\ newsletters'[pk].time = newsletters[pk].time
           /\ newsletters'[pk].finish_date = newsletters[pk].finish_date
           /\ newsletters'[pk].finish_time = newsletters[pk].finish_time
           /\ newsletters'[pk].frequency = newsletters[pk].frequency
           /\ newsletters'[pk].clients = newsletters[pk].clients
           /\ newsletters'[pk].messages = newsletters[pk].messages
           /\ newsletters'[pk].created_by = newsletters[pk].created_by
           /\ log' = log
           /\ OthersUntouched(pk)

\* C5: a successful disable sets is_active false and leaves no job under
\* the newsletter's key; the newsletter's status, schedule fields, clients
\* and messages, the log rows and every other newsletter stay as they were.
C5_DisableFrame == [][C5_DisableStep]_vars

\* A scheduled newsletter with a log row was disabled.
C5_Witness ==
    /\ last.op = "disable" /\ last.outcome = "ok"
    /\ last.pre_jobs = 1 /\ last.pre_status = "S"
    /\ ~newsletters[last.pk].is_active
    /\ newsletters[last.pk].status = "S"
    /\ job_count(jobs, last.pk) = 0
    /\ \E i \in 1..Len(log) : log[i].newsletter = last.pk

\* What C10 requires of every step.
C10_SendStep ==
    (cmd.pc = "running" /\ cmd'.i = cmd.i + 1) =>
        LET pk == cmd.ids[cmd.i]
            pairs == {<<c, m>> : c \in newsletters[pk].clients,
                                 m \in newsletters[pk].messages}
        IN /\ Len(log') = Len(log) + 1
           /\ SubSeq(log', 1, Len(log)) = log
           /\ log'[Len(log')].newsletter = pk
           /\ log'[Len(log')].status =
                  IF \E p \in pairs : p \in cmd'.failing THEN "failure" ELSE "success"

\* C10: each invocation of send_mail_to_client appends exactly one log row,
\* for that newsletter, whatever the numbers of its clients and messages;
\* the row is a failure if one of the sends failed and a success otherwise.
C10_OneLogRowPerSend == [][C10_SendStep]_vars

\* One of four sends failed and the invocation's single row is a failure.
C10_Witness ==
    /\ cmd.pc \in {"running", "done"} /\ cmd.i > 1
    /\ last.op = "sendnewsletter" /\ last.outcome = "ok"
    /\ Cardinality(newsletters[last.pk].clients) = 2
    /\ Cardinality(newsletters[last.pk].messages) = 2
    /\ Cardinality(cmd.failing) = 1
    /\ Len(log) = 1
    /\ log[1].newsletter = last.pk /\ log[1].status = "failure"

\* A newsletter without clients was sent: one row, a success.
C10_WitnessEmpty ==
    /\ cmd.i > 1
    /\ last.op = "sendnewsletter" /\ last.outcome = "ok"
    /\ newsletters[last.pk].clients = {}
    /\ Len(log) = 1
    /\ log[1].newsletter = last.pk /\ log[1].status = "success"

\* What C11 requires of every step.
C11_SendAllStep ==
    (cmd.pc = "running" /\ cmd' # cmd /\ exists(cmd.ids[cmd.i])) =>
        LET pk == cmd.ids[cmd.i]
            pairs == {<<c, m>> : c \in newsletters[pk].clients,
                                 m \in newsletters[pk].messages}
        IN /\ cmd'.attempted = pairs
           /\ cmd'.pc \in {"running", "done"}
           /\ cmd'.i = cmd.i + 1
           /\ cmd'.out = Append(cmd.out, pk)
           /\ last'.outcome = "ok"
           /\ (\E p \in pairs : p \in cmd'.failing) =>
                  log'[Len(log')].status = "failure"

\* C11: an invocation of send_mail_to_client calls the transport for every
\* (client, message) pair of the newsletter's current sets, also when the
\* first or every send fails, and returns to the command, which writes its
\* success line and goes on; a failure shows only as the log row's status.
C11_AllPairsAttempted == [][C11_SendAllStep]_vars

\* All four sends of a newsletter failed; all four were attempted and the
\* command went on.
C11_Witness ==
    /\ last.op = "sendnewsletter" /\ last.outcome = "ok"
    /\ cmd.pc \in {"running", "done"}
    /\ Cardinality(cmd.attempted) = 4
    /\ cmd.attempted \subseteq cmd.failing
    /\ Len(cmd.out) >= 1 /\ cmd.out[Len(cmd.out)] = last.pk
    /\ log[Len(log)].status = "failure"

\* What C13 requires of every step.
C13_CommandStep ==
    /\ cmd.pc \in {"running", "done", "error"} =>
           /\ cmd.i \in 1..(Len(cmd.ids) + 1)
           /\ cmd.out = SubSeq(cmd.ids, 1, cmd.i - 1)
           /\ \A j \in 1..(cmd.i - 1) : exists(cmd.ids[j])
    /\ (cmd.pc = "running" /\ cmd' # cmd) =>
           LET id == cmd.ids[cmd.i]
           IN IF exists(id)
              THEN /\ Len(log') = Len(log) + 1
                   /\ SubSeq(log', 1, Len(log)) = log
                   /\ log'[Len(log')].newsletter = id
                   /\ cmd'.out = Append(cmd.out, id)
                   /\ cmd'.i = cmd.i + 1
                   /\ cmd'.pc = IF cmd.i = Len(cmd.ids) THEN "done" ELSE "running"
              ELSE /\ cmd'.pc = "error"
                   /\ last'.outcome = "error" /\ last'.pk = id
                   /\ cmd'.i = cmd.i /\ cmd'.out = cmd.out
                   /\ log' = log
    /\ cmd.pc # "running" =>
           /\ log' = log
           /\ cmd' = cmd \/ (cmd'.pc = "running" /\ cmd'.i = 1 /\ cmd'.out = << >>)

\* C13: the command goes through its ids in the given order; for each id
\* with a newsletter, occurrence by occurrence, one send is made (one log
\* row for that newsletter) and the success line is written; at the first id
\* without a newsletter the command ends with an error naming that id,
\* processes no later id and leaves the rows already written in place.
C13_IdsInOrderUntilMissing == [][C13_CommandStep]_vars

\* Given ids 1 and 2 with no newsletter 2: newsletter 1 was sent and logged,
\* then the command ended with an error at id 2.
C13_Witness ==
    /\ cmd.pc = "error" /\ cmd.ids = <<1, 2>> /\ cmd.i = 2
    /\ cmd.out = <<1>>
    /\ last.op = "sendnewsletter" /\ last.outcome = "error" /\ last.pk = 2
    /\ ~exists(2)
    /\ Len(log) >= 1 /\ log[Len(log)].newsletter = 1

\* The same id given twice was sent twice.
C13_WitnessTwice ==
    /\ cmd.pc = "done" /\ cmd.ids = <<1, 1>> /\ cmd.out = <<1, 1>>
    /\ Len(log) = 2 /\ log[1].newsletter = 1 /\ log[2].newsletter = 1

----------------------------------------------------------------------------
(* SpecLog: u1 and u2 create, edit and disable newsletters, the command  *)
(* sends them, and every requester opens the newsletter and log pages.   *)

\* A NewsletterLog row's primary key is its position in log.
log_exists(pk) == pk \in 1..Len(log)

\* Variant: every logged-in user passes the log-owner check.
newsletter_log_access_any_user(row, u) ==
    ~(newsletters[row.newsletter].created_by # u /\ ~is_authenticated(u))

\* NewsletterLogAccessMixin.dispatch: the request goes on unless the user
\* is not the creator of the log's newsletter, not staff and not superuser.
newsletter_log_access(row, u) ==
    ~(/\ newsletters[row.newsletter].created_by # u
      /\ ~is_staff(u)
      /\ ~is_superuser(u))

\* NewsletterLogDetailView: NewsletterLogAccessMixin.dispatch, then the page.
NewsletterLogDetailView(u, pk) ==
    /\ IF ~log_exists(pk)
       THEN Refused("log_detail", u, pk, "404", None)
       ELSE IF ~newsletter_log_access(log[pk], u)
       THEN Refused("log_detail", u, pk, "forbidden", None)
       ELSE Refused("log_detail", u, pk, "shown", None)
    /\ UNCHANGED <<today, clients, log, req, cmd, site>>

\* NewsletterLogListView: AuthenticatedAccessMixin, then the page with the
\* rows of get_queryset.
NewsletterLogListView(u) ==
    /\ IF ~authenticated_access(u)
       THEN Refused("log_list", u, 0, "login", None)
       ELSE Refused("log_list", u, 0, "shown", None)
    /\ UNCHANGED <<today, clients, log, req, cmd, site>>

Creators == {"u1", "u2"}

\* A one-shot newsletter to the creator's own client and message.
OwnForm(u) ==
    IF u = "u1" THEN OneShot({1}, {"m1"}) ELSE OneShot({2}, {"m2"})

NextLog ==
    \/ \E u \in Creators : NewsletterCreateView(u, OwnForm(u), TRUE)
    \/ \E pk \in NewsletterIds :
           NewsletterUpdateView("u1", pk, OneShot({1, 2}, {"m1"}), TRUE)
    \/ \E u \in Creators, pk \in NewsletterIds : NewsletterDeleteView(u, pk)
    \/ \E pk \in NewsletterIds : NewsletterDetailView("u1", pk)
    \/ NewsletterListView("u1")
    \/ \E u \in Requesters, pk \in 1..MaxLog : NewsletterLogDetailView(u, pk)
    \/ NewsletterLogListView("u1")
    \/ \E pk \in NewsletterIds : sendnewsletter(<<pk>>)
    \/ \E failing \in {{}, {<<1, "m1">>}} : Command_handle(failing)

SpecLog == Init /\ [][NextLog]_vars

\* What C12 requires of every step.
C12_LogStep ==
    /\ Len(log') >= Len(log)
    /\ \A i \in 1..Len(log) : log'[i] = log[i]

C16_LogDetailStep ==
    (last'.op = "log_detail" /\ last'.pk \in 1..Len(log)) =>
        LET owner == newsletters[log[last'.pk].newsletter].created_by
            allowed == \/ owner = last'.user
                       \/ last'.user \in DOMAIN users /\ users[last'.user].is_staff
                       \/ last'.user \in DOMAIN users /\ users[last'.user].is_superuser
        IN /\ last'.outcome = "shown" <=> allowed
           /\ ~allowed => last'.outcome = "forbidden"

C16_WitnessShown ==
    /\ last.op = "log_detail" /\ last.outcome = "shown"
    /\ last.user = newsletters[log[last.pk].newsletter].created_by

----------------------------------------------------------------------------
(* SpecCache: the main-page counters and their cache, while u1 creates   *)
(* and disables newsletters and creates clients, time passes and the     *)
(* service is restarted with the caching flag switched.                  *)

\* The timeouts given to cache.set, in seconds.
total_newsletter_timeout == 10
active_newsletters_timeout == 120
unique_clients_timeout == 180

\* A cache entry is [value, ttl]: the stored value and the seconds left
\* until it expires.  cache.get returns the value of an entry that has not
\* expired, and None otherwise.
cache_get(key) == {e.value : e \in {x \in cache[key] : x.ttl > 0}}

\* cache.set(key, value, timeout)
cache_set(key, value, timeout) ==
    [cache EXCEPT ![key] = {[value |-> value, ttl |-> timeout]}]

\* Newsletter.objects.count()
count_newsletters == Cardinality(DOMAIN newsletters)

\* Newsletter.objects.filter(is_active=True).count()
count_active_newsletters ==
    Cardinality({k \in DOMAIN newsletters : newsletters[k].is_active})

\* Client.objects.values('email').distinct().count()
count_unique_clients == Cardinality({clients[c].email : c \in DOMAIN clients})

\* What a counter call returned.
Returned(op, value) == last' = [op |-> op, value |-> value]

\* Variant: the total is recounted on every call, cached or not.
get_total_newsletter_recounts ==
    /\ IF settings.CACHE_ENABLED
       THEN /\ cache' = cache_set("total_newsletter", count_newsletters,
                                  total_newsletter_timeout)
            /\ Returned("get_total_newsletter", count_newsletters)
       ELSE /\ cache' = cache
            /\ Returned("get_total_newsletter", count_newsletters)
    /\ UNCHANGED <<today, clients, newsletters, jobs, log, req, cmd,
                   messages, users, settings, posts>>

\* MainPageDataCachingServices.get_total_newsletter
get_total_newsletter ==
    /\ IF settings.CACHE_ENABLED
       THEN LET total_newsletter == cache_get("total_newsletter")
            IN IF total_newsletter = None
               THEN /\ cache' = cache_set("total_newsletter", count_newsletters,
                                          total_newsletter_timeout)
                    /\ Returned("get_total_newsletter", count_newsletters)
               ELSE /\ cache' = cache
                    /\ \E v \in total_newsletter : Returned("get_total_newsletter", v)
       ELSE /\ cache' = cache
            /\ Returned("get_total_newsletter", count_newsletters)
    /\ UNCHANGED <<today, clients, newsletters, jobs, log, req, cmd,
                   messages, users, settings, posts>>

\* Variant: the active count goes through the cache whatever the flag says.
get_active_newsletters_ignores_flag ==
    /\ LET active_newsletters == cache_get("active_newsletters")
       IN IF active_newsletters = None
          THEN /\ cache' = cache_set("active_newsletters", count_active_newsletters,
                                     active_newsletters_timeout)
               /\ Returned("get_active_newsletters", count_active_newsletters)
          ELSE /\ cache' = cache
               /\ \E v \in active_newsletters : Returned("get_active_newsletters", v)
    /\ UNCHANGED <<today, clients, newsletters, jobs, log, req, cmd,
                   messages, users, settings, posts>>

\* MainPageDataCachingServices.get_active_newsletters
get_active_newsletters ==
    /\ IF settings.CACHE_ENABLED
       THEN LET active_newsletters == cache_get("active_newsletters")
            IN IF active_newsletters = None
               THEN /\ cache' = cache_set("active_newsletters", count_active_newsletters,
                                          active_newsletters_timeout)
                    /\ Returned("get_active_newsletters", count_active_newsletters)
               ELSE /\ cache' = cache
                    /\ \E v \in active_newsletters : Returned("get_active_newsletters", v)
       ELSE /\ cache' = cache
            /\ Returned("get_active_newsletters", count_active_newsletters)
    /\ UNCHANGED <<today, clients, newsletters, jobs, log, req, cmd,
                   messages, users, settings, posts>>

\* MainPageDataCachingServices.get_unique_clients
get_unique_clients ==
    /\ IF settings.CACHE_ENABLED
       THEN LET unique_clients == cache_get("unique_clients")
            IN IF unique_clients = None
               THEN /\ cache' = cache_set("unique_clients", count_unique_clients,
                                          unique_clients_timeout)
                    /\ Returned("get_unique_clients", count_unique_clients)
               ELSE /\ cache' = cache
                    /\ \E v \in unique_clients : Returned("get_unique_clients", v)
       ELSE /\ cache' = cache
            /\ Returned("get_unique_clients", count_unique_clients)
    /\ UNCHANGED <<today, clients, newsletters, jobs, log, req, cmd,
                   messages, users, settings, posts>>

\* d seconds pass: every entry is d seconds closer to its expiry, and an
\* entry that has reached it is no longer stored.
Tick(d) ==
    /\ cache' = [k \in CacheKeys |->
                    {[value |-> e.value, ttl |-> e.ttl - d] :
                        e \in {x \in cache[k] : x.ttl > d}}]
    /\ cache' # cache
    /\ last' = [op |-> "tick", value |-> d]
    /\ UNCHANGED <<today, clients, newsletters, jobs, log, req, cmd,
                   messages, users, settings, posts>>

\* The service is restarted with CACHE_ENABLED switched; the cache backend
\* keeps its entries over the restart or starts empty.
Reconfigure(kept) ==
    /\ settings' = [settings EXCEPT !.CACHE_ENABLED = ~@]
    /\ cache' = IF kept THEN cache ELSE EmptyCache
    /\ last' = [op |-> "reconfigure", value |-> 0]
    /\ UNCHANGED <<today, clients, newsletters, jobs, log, req, cmd,
                   messages, users, posts>>

\* The lengths of time that pass between two requests.
TickSteps == {10, 60}

NextCache ==
    \/ get_total_newsletter
    \/ get_active_newsletters
    \/ get_unique_clients
    \/ \E d \in TickSteps : Tick(d)
    \/ \E kept \in BOOLEAN : Reconfigure(kept)
    \/ NewsletterCreateView("u1", OneShot({1}, {"m1"}), TRUE)
    \/ \E pk \in NewsletterIds : NewsletterDeleteView("u1", pk)
    \/ ClientCreateView("u1", [email |-> "b@x", names |-> TRUE])

SpecCache == Init /\ [][NextCache]_vars

Getters == {"get_total_newsletter", "get_active_newsletters", "get_unique_clients"}

key_of(op) ==
    CASE op = "get_total_newsletter" -> "total_newsletter"
      [] op = "get_active_newsletters" -> "active_newsletters"
      [] op = "get_unique_clients" -> "unique_clients"

count_of(op) ==
    CASE op = "get_total_newsletter" -> Cardinality(DOMAIN newsletters)
      [] op = "get_active_newsletters" ->
             Cardinality({k \in DOMAIN newsletters : newsletters[k].is_active})
      [] op = "get_unique_clients" ->
             Cardinality({clients[c].email : c \in DOMAIN clients})

timeout_of(op) ==
    CASE op = "get_total_newsletter" -> 10
      [] op = "get_active_newsletters" -> 120
      [] op = "get_unique_clients" -> 180

\* What C14 requires of every step.
C14_CacheStep ==
    /\ (last'.op \in Getters /\ settings.CACHE_ENABLED) =>
           LET key == key_of(last'.op)
               live == {e \in cache[key] : e.ttl > 0}
           IN /\ live # {} =>
                     /\ \A e \in live : last'.value = e.value
                     /\ cache' = cache
              /\ live = {} =>
                     /\ last'.value = count_of(last'.op)
                     /\ cache'[key] = {[value |-> count_of(last'.op),
                                        ttl |-> timeout_of(last'.op)]}
                     /\ \A k \in CacheKeys \ {key} : cache'[k] = cache[k]
    /\ (last'.op = "tick") =>
           \A k \in CacheKeys :
               /\ \A e \in cache[k] : e.ttl > last'.value =>
                      cache'[k] = {[value |-> e.value, ttl |-> e.ttl - last'.value]}
               /\ \A e \in cache[k] : e.ttl <= last'.value => cache'[k] = {}
    /\ (newsletters' # newsletters \/ clients' # clients) => cache' = cache

C15_UncachedStep ==
    (last'.op \in Getters /\ ~settings.CACHE_ENABLED) =>
        /\ last'.value = count_of(last'.op)
        /\ cache' = cache

\* C15: with the caching flag disabled every counter call returns the count
\* of the current data and leaves the cache as it is; an entry stored while
\* caching was enabled is neither returned nor changed.
C15_DisabledAlwaysRecounts == [][C15_UncachedStep]_vars

\* With the flag disabled the active count was recounted although an entry
\* with another value is still stored.
C15_Witness ==
    /\ ~settings.CACHE_ENABLED
    /\ last.op = "get_active_newsletters"
    /\ last.value = count_active_newsletters
    /\ \E e \in cache["active_newsletters"] : e.ttl > 0 /\ e.value # last.value

----------------------------------------------------------------------------
(* SpecOwner: every requester tries to edit and delete the seeded clients *)
(* and messages.                                                          *)

\* Model.delete() of the row under pk.
delete(table, pk) == [k \in (DOMAIN table) \ {pk} |-> table[k]]

\* The rows of the many-to-many tables that point to a deleted client or
\* message go with it.
without_client(pk) ==
    [k \in DOMAIN newsletters |-> [newsletters[k] EXCEPT !.clients = @ \ {pk}]]
without_message(pk) ==
    [k \in DOMAIN newsletters |-> [newsletters[k] EXCEPT !.messages = @ \ {pk}]]

\* The HTTP methods a delete view answers with a change or a redirect:
\* POST goes to DeleteView.post and form_valid, DELETE to the view's delete.
DeleteMethods == {"POST", "DELETE"}

\* ClientDeleteView: CreatorAccessMixin.dispatch, then DeleteView.post,
\* which deletes the client, or the overridden delete, which only redirects.
ClientDeleteView(u, pk, method) ==
    /\ IF pk \notin DOMAIN clients
       THEN /\ ClientHandled("client_delete", u, pk, "404", [email |-> "-"], {})
            /\ UNCHANGED <<clients, newsletters>>
       ELSE IF ~check_creator_access(clients[pk], u)
       THEN /\ ClientHandled("client_delete", u, pk, "forbidden", [email |-> "-"], {})
            /\ UNCHANGED <<clients, newsletters>>
       ELSE IF method = "POST"
       THEN /\ clients' = delete(clients, pk)
            /\ newsletters' = without_client(pk)
            /\ ClientHandled("client_delete", u, pk, "ok", [email |-> "-"], {})
       ELSE /\ ClientHandled("client_delete", u, pk, "kept", [email |-> "-"], {})
            /\ UNCHANGED <<clients, newsletters>>
    /\ UNCHANGED <<today, jobs, log, req, cmd, site>>

Subjects == {"s1", "s2"}

MessageHandled(op, u, pk, outcome, subject) ==
    last' = [op |-> op, user |-> u, pk |-> pk, outcome |-> outcome,
             subject |-> subject]

\* MessageUpdateView.form_valid
MessageUpdateView_form_valid(u, pk, subject) ==
    /\ messages' = save(messages, pk, [messages[pk] EXCEPT !.subject = subject])
    /\ MessageHandled("message_update", u, pk, "ok", subject)

\* MessageUpdateView: CreatorAccessMixin.dispatch, then UpdateView.post.
MessageUpdateView(u, pk, subject) ==
    /\ IF pk \notin DOMAIN messages
       THEN /\ MessageHandled("message_update", u, pk, "404", subject)
            /\ UNCHANGED messages
       ELSE IF ~check_creator_access(messages[pk], u)
       THEN /\ MessageHandled("message_update", u, pk, "forbidden", subject)
            /\ UNCHANGED messages
       ELSE MessageUpdateView_form_valid(u, pk, subject)
    /\ UNCHANGED <<today, clients, newsletters, jobs, log, req, cmd,
                   users, cache, settings, posts>>

\* MessageDeleteView: CreatorAccessMixin.dispatch, then DeleteView.post,
\* which deletes the message, or the overridden delete, which only redirects.
MessageDeleteView(u, pk, method) ==
    /\ IF pk \notin DOMAIN messages
       THEN /\ MessageHandled("message_delete", u, pk, "404", "-")
            /\ UNCHANGED <<messages, newsletters>>
       ELSE IF ~check_creator_access(messages[pk], u)
       THEN /\ MessageHandled("message_delete", u, pk, "forbidden", "-")
            /\ UNCHANGED <<messages, newsletters>>
       ELSE IF method = "POST"
       THEN /\ messages' = delete(messages, pk)
            /\ newsletters' = without_message(pk)
            /\ MessageHandled("message_delete", u, pk, "ok", "-")
       ELSE /\ MessageHandled("message_delete", u, pk, "kept", "-")
            /\ UNCHANGED <<messages, newsletters>>
    /\ UNCHANGED <<today, clients, jobs, log, req, cmd, users, cache, settings, posts>>

NextOwner ==
    \/ \E u \in Requesters, pk \in DOMAIN SeedClients, f \in ClientForms :
           ClientUpdateView(u, pk, f)
    \/ \E u \in Requesters, pk \in DOMAIN SeedClients, method \in DeleteMethods :
           ClientDeleteView(u, pk, method)
    \/ \E u \in Requesters, pk \in MessageIds, subject \in Subjects :
           MessageUpdateView(u, pk, subject)
    \/ \E u \in Requesters, pk \in MessageIds, method \in DeleteMethods :
           MessageDeleteView(u, pk, method)
    \/ NewsletterCreateView("u1", OneShot({1}, {"m1"}), TRUE)

SpecOwner == Init /\ [][NextOwner]_vars

ClientRowChanged(c) == c \notin DOMAIN clients' \/ clients'[c] # clients[c]
MessageRowChanged(m) == m \notin DOMAIN messages' \/ messages'[m] # messages[m]

\* What C17 requires of every step.
C17_OwnerStep ==
    /\ \A c \in DOMAIN clients :
           ClientRowChanged(c) =>
               /\ last'.op \in {"client_update", "client_delete"}
               /\ last'.pk = c
               /\ last'.user = clients[c].created_by
    /\ \A m \in DOMAIN messages :
           MessageRowChanged(m) =>
               /\ last'.op \in {"message_update", "message_delete"}
               /\ last'.pk = m
               /\ last'.user = messages[m].created_by
    /\ (/\ last'.op \in {"client_update", "client_delete"}
        /\ last'.pk \in DOMAIN clients
        /\ last'.user # clients[last'.pk].created_by) =>
           /\ last'.outcome = "forbidden"
           /\ clients' = clients /\ newsletters' = newsletters
    /\ (/\ last'.op \in {"message_update", "message_delete"}
        /\ last'.pk \in DOMAIN messages
        /\ last'.user # messages[last'.pk].created_by) =>
           /\ last'.outcome = "forbidden"
           /\ messages' = messages /\ newsletters' = newsletters

\* C17: a client or message row changes or disappears only in an update or
\* delete request for that row made by its created_by; the same requests
\* by anyone else, staff and superuser included, are redirected by the
\* owner check and leave every client, message and newsletter as it was.
C17_OnlyCreatorChanges == [][C17_OwnerStep]_vars

\* The administrator's delete of u1's client was redirected; the client is
\* still there, selected by a newsletter.
C17_Witness ==
    /\ last.op = "client_delete" /\ last.outcome = "forbidden"
    /\ is_superuser(last.user)
    /\ last.pk \in DOMAIN clients
    /\ clients[last.pk].created_by = "u1"
    /\ \E k \in DOMAIN newsletters : last.pk \in newsletters[k].clients

\* The creator deleted a message, which left the newsletter that had it.
C17_WitnessDeleted ==
    /\ last.op = "message_delete" /\ last.outcome = "ok"
    /\ last.user = "u1"
    /\ last.pk \notin DOMAIN messages
    /\ \E k \in DOMAIN newsletters : newsletters[k].messages = {}

----------------------------------------------------------------------------
(* SpecUser: people register and follow confirmation links while the     *)
(* manager and the administrator submit the user list.                   *)

\* The ids the users table gives to the next registered users, in order.
Registrants == <<"u3", "u4">>
UserIds == Users \cup {Registrants[i] : i \in 1..Len(Registrants)}

\* The user of a request: the session's user while that user's row exists
\* and is active, AnonymousUser otherwise.
request_user(s) ==
    IF s \in DOMAIN users /\ users[s].is_active THEN s ELSE Anonymous

\* Variant: the hash leaves is_active out.
make_hash_value_without_is_active(id, user) ==
    [pk |-> id, is_active |-> FALSE, email_verified |-> user.email_verified]

\* EmailConfirmTokenGenerator._make_hash_value: what a token is bound to
\* (the timestamp aside): the user's pk, is_active and email_verified.
make_hash_value(id, user) ==
    [pk |-> id, is_active |-> user.is_active, email_verified |-> user.email_verified]

\* A token that no user's hash value matches (a mistyped or made-up one).
Garbage == [pk |-> "-", is_active |-> FALSE, email_verified |-> FALSE]

\* Variant: the hash leaves the user's pk out.
check_token_without_pk(id, user, token, fresh) ==
    /\ token.is_active = user.is_active
    /\ token.email_verified = user.email_verified
    /\ fresh

\* email_token_generator.check_token(user, token): the token's hash is the
\* one of the user's current state, and the token has not timed out.
check_token(id, user, token, fresh) ==
    /\ token = make_hash_value(id, user)
    /\ fresh

\* The token mailed to a user at registration, when the row is inactive and
\* unverified.
confirmation_token(id) ==
    [pk |-> id, is_active |-> FALSE, email_verified |-> FALSE]

UserHandled(op, u, outcome, uid, token, login, block, manager) ==
    last' = [op |-> op, user |-> u, outcome |-> outcome, uid |-> uid,
             token |-> token, login |-> login, block |-> block,
             manager |-> manager]

\* Variant: the registration leaves is_active at the model's default, True.
UserRegisterView_form_valid_active(id, sent) ==
    /\ users' = save(users, id,
                     [is_active |-> TRUE, email_verified |-> FALSE,
                      is_staff |-> FALSE, is_superuser |-> FALSE])
    /\ UserHandled("register", Anonymous, IF sent THEN "ok" ELSE "error",
                   id, confirmation_token(id), {}, {}, {})

\* UserRegisterView.form_valid: the row is saved with is_active False (and
\* email_verified at its default) and the confirmation mail is sent.
UserRegisterView_form_valid(id, sent) ==
    /\ users' = save(users, id,
                     [is_active |-> FALSE, email_verified |-> FALSE,
                      is_staff |-> FALSE, is_superuser |-> FALSE])
    /\ UserHandled("register", Anonymous, IF sent THEN "ok" ELSE "error",
                   id, confirmation_token(id), {}, {}, {})

\* UserRegisterView: CreateView.post with UserRegistrationForm.  valid: the
\* form validates; sent: the confirmation mail goes out or the send raises.
UserRegisterView(valid, sent) ==
    /\ \E i \in 1..Len(Registrants) :
           /\ Registrants[i] \notin DOMAIN users
           /\ \A j \in 1..(i - 1) : Registrants[j] \in DOMAIN users
           /\ IF ~valid
              THEN /\ sent
                   /\ UserHandled("register", Anonymous, "invalid", "-", Garbage,
                                  {}, {}, {})
                   /\ UNCHANGED users
              ELSE UserRegisterView_form_valid(Registrants[i], sent)
    /\ UNCHANGED <<today, clients, newsletters, jobs, log, req, cmd,
                   messages, cache, settings, posts>>

\* EmailConfirmationView.get.  uid is what the link's uidb64 decodes to: a
\* user id, or "undecodable" when decoding or the lookup's conversion raises.
EmailConfirmationView(uid, token, fresh) ==
    /\ IF uid \notin DOMAIN users
       THEN /\ UserHandled("confirm", Anonymous, "error", uid, token, {}, {}, {})
            /\ UNCHANGED users
       ELSE IF check_token(uid, users[uid], token, fresh)
       THEN /\ users' = save(users, uid,
                             [users[uid] EXCEPT !.email_verified = TRUE,
                                                !.is_active = TRUE])
            /\ UserHandled("confirm", Anonymous, "ok", uid, token, {uid}, {}, {})
       ELSE /\ UserHandled("confirm", Anonymous, "invalid", uid, token, {}, {}, {})
            /\ UNCHANGED users
    /\ UNCHANGED <<today, clients, newsletters, jobs, log, req, cmd,
                   messages, cache, settings, posts>>

\* Variant: the unblock leaves the administrator out, as the manager reset does.
unblock_all_users_except_superuser(table) ==
    [id \in DOMAIN table |->
        IF table[id].is_superuser THEN table[id]
        ELSE [table[id] EXCEPT !.is_active = TRUE]]

\* UserManagerService.unblock_all_users
unblock_all_users(table) ==
    [id \in DOMAIN table |-> [table[id] EXCEPT !.is_active = TRUE]]

\* UserManagerService.block_users
block_users(table, user_ids) ==
    [id \in DOMAIN table |->
        IF id \in user_ids THEN [table[id] EXCEPT !.is_active = FALSE] ELSE table[id]]

\* Variant: the manager reset does not leave the administrator out.
remove_manager_status_of_everyone(table) ==
    [id \in DOMAIN table |-> [table[id] EXCEPT !.is_staff = FALSE]]

\* UserManagerService.remove_manager_status_all_users
remove_manager_status_all_users(table) ==
    [id \in DOMAIN table |->
        IF table[id].is_superuser THEN table[id]
        ELSE [table[id] EXCEPT !.is_staff = FALSE]]

\* UserManagerService.set_as_manager
set_as_manager(table, user_ids) ==
    [id \in DOMAIN table |->
        IF id \in user_ids THEN [table[id] EXCEPT !.is_staff = TRUE] ELSE table[id]]

\* UserListView.post: ManagerAccessMixin.dispatch, then the bulk update
\* from box_active and, for the administrator, box_manager.
UserListView_post(u, box_active, box_manager) ==
    /\ IF ~(is_staff(u) \/ is_superuser(u))
       THEN /\ UserHandled("user_list", u, "forbidden", "-", Garbage, {}, box_active,
                        box_manager)
            /\ UNCHANGED users
       ELSE LET blocked == block_users(unblock_all_users(users), box_active)
            IN /\ users' = IF is_superuser(u)
                           THEN set_as_manager(remove_manager_status_all_users(blocked),
                                               box_manager)
                           ELSE blocked
               /\ UserHandled("user_list", u, "ok", "-", Garbage, {}, box_active,
                              box_manager)
    /\ UNCHANGED <<today, clients, newsletters, jobs, log, req, cmd,
                   messages, cache, settings, posts>>

\* The box_active and box_manager selections submitted.
BlockSets == {{}, {"u1", "u3"}, {"mgr"}, {"root", "u4"}}
ManagerSets == {{"mgr"}, {"u2"}}

\* The uid and token parts of the confirmation links followed.
LinkUids == UserIds \cup {"undecodable"}
LinkTokens == {confirmation_token(id) : id \in UserIds} \cup {Garbage}

NextUser ==
    \/ \E valid, sent \in BOOLEAN : UserRegisterView(valid, sent)
    \/ \E uid \in LinkUids, token \in LinkTokens, fresh \in BOOLEAN :
           EmailConfirmationView(uid, token, fresh)
    \/ \E s \in Requesters, box_active \in BlockSets, box_manager \in ManagerSets :
           UserListView_post(request_user(s), box_active, box_manager)

SpecUser == Init /\ [][NextUser]_vars

\* What C18 requires of every step.
C18_RegistrationStep ==
    /\ (last'.op = "register" /\ last'.outcome \in {"ok", "error"}) =>
           /\ last'.uid \notin DOMAIN users
           /\ DOMAIN users' = DOMAIN users \cup {last'.uid}
           /\ ~users'[last'.uid].is_active
           /\ ~users'[last'.uid].email_verified
           /\ \A id \in DOMAIN users : users'[id] = users[id]
    /\ last'.op = "confirm" =>
           LET uid == last'.uid
               valid == /\ uid \in DOMAIN users
                        /\ last'.token.pk = uid
                        /\ last'.token.is_active = users[uid].is_active
                        /\ last'.token.email_verified = users[uid].email_verified
           IN /\ (\E id \in DOMAIN users :
                      \/ users'[id].is_active # users[id].is_active
                      \/ users'[id].email_verified # users[id].email_verified) => valid
              /\ last'.login # {} => valid /\ last'.login = {uid}
              /\ last'.outcome = "ok" =>
                     /\ valid
                     /\ users'[uid].is_active /\ users'[uid].email_verified
                     /\ \A id \in DOMAIN users \ {uid} : users'[id] = users[id]
              /\ ~valid =>
                     /\ users' = users
                     /\ last'.login = {}
                     /\ last'.outcome \in {"invalid", "error"}

\* C18: a registration adds a user with is_active and email_verified
\* false; a confirmation request sets both to true, for the addressed user
\* alone, only with a token that is valid for that user; with any other
\* token, an undecodable uid or an id without a user, no user's is_active or
\* email_verified changes and nobody is logged in.
C18_ActivationOnlyByValidToken == [][C18_RegistrationStep]_vars

\* The link mailed to one registered user, followed with the id of another
\* one who is also still inactive and unverified, activated nobody.
C18_Witness ==
    /\ last.op = "confirm" /\ last.outcome = "invalid"
    /\ last.uid \in DOMAIN users
    /\ last.token.pk # last.uid
    /\ last.token.pk \in DOMAIN users
    /\ ~users[last.uid].is_active /\ ~users[last.uid].email_verified
    /\ ~users[last.token.pk].is_active /\ ~users[last.token.pk].email_verified
    /\ last.login = {}

\* A registered user followed the mailed link and is active and verified.
C18_WitnessConfirmed ==
    /\ last.op = "confirm" /\ last.outcome = "ok"
    /\ last.token = confirmation_token(last.uid)
    /\ users[last.uid].is_active /\ users[last.uid].email_verified
    /\ last.login = {last.uid}

\* What C19 requires of every step.
C19_BulkStep ==
    (last'.op = "user_list" /\ last'.outcome = "ok") =>
        /\ DOMAIN users' = DOMAIN users
        /\ \A id \in DOMAIN users' :
               users'[id].is_active <=> id \notin last'.block
        /\ \A id \in DOMAIN users :
               users'[id].email_verified = users[id].email_verified

\* C19: after a submission of the user list that passed the manager check,
\* is_active is false for exactly the users whose id was submitted in
\* box_active and true for every other user (the administrator, users who
\* were blocked before, users who never confirmed), whatever it was before.
C19_BulkBlockResetsEveryone == [][C19_BulkStep]_vars

\* The manager's submission, which named only the manager, made the blocked
\* administrator and a never-confirmed registrant active.
C19_Witness ==
    /\ last.op = "user_list" /\ last.outcome = "ok"
    /\ last.user = "mgr" /\ last.block = {"mgr"}
    /\ ~users["mgr"].is_active
    /\ users["root"].is_active
    /\ \E id \in DOMAIN users : users[id].is_active /\ ~users[id].email_verified

\* What C25 requires of every step.
C25_ManagerStep ==
    last'.op = "user_list" =>
        /\ DOMAIN users' = DOMAIN users
        /\ IF last'.outcome = "ok" /\ is_superuser(last'.user)
           THEN \A id \in DOMAIN users :
                    IF users[id].is_superuser
                    THEN /\ users'[id].is_superuser
                         /\ users[id].is_staff => users'[id].is_staff
                    ELSE users'[id].is_staff <=> id \in last'.manager
           ELSE \A id \in DOMAIN users : users'[id].is_staff = users[id].is_staff

\* C25: a submission of the user list changes is_staff only when the
\* requester is a superuser: then every non-superuser has is_staff true
\* exactly when its id was submitted in box_manager and no superuser loses
\* is_staff; a submission by a manager who is not a superuser, or a refused
\* one, changes no user's is_staff.
C25_ManagersSetBySuperuserOnly == [][C25_ManagerStep]_vars

\* The administrator's submission named u2 alone: u2 is a manager, the
\* former manager is not, the administrator still is.
C25_Witness ==
    /\ last.op = "user_list" /\ last.outcome = "ok"
    /\ last.user = "root" /\ last.manager = {"u2"}
    /\ users["u2"].is_staff
    /\ ~users["mgr"].is_staff
    /\ users["root"].is_staff

\* The manager's submission named u2 as a manager and changed no is_staff.
C25_WitnessManager ==
    /\ last.op = "user_list" /\ last.outcome = "ok"
    /\ last.user = "mgr" /\ last.manager = {"u2"}
    /\ ~users["u2"].is_staff
    /\ users["mgr"].is_staff

\* The users created through registration.
Registered == {id \in DOMAIN users : \E i \in 1..Len(Registrants) : Registrants[i] = id}

\* C26 as stated: a user created through registration never has
\* is_active true while email_verified is false.
C26_ActiveOnlyIfVerified ==
    \A id \in Registered : users[id].is_active => users[id].email_verified

\* What the amended C26 requires of every step.
C26_ActivationStep ==
    \A id \in DOMAIN users' :
        (/\ \E i \in 1..Len(Registrants) : Registrants[i] = id
         /\ users'[id].is_active /\ ~users'[id].email_verified)
        => \/ /\ id \in DOMAIN users
              /\ users[id].is_active /\ ~users[id].email_verified
           \/ /\ last'.op = "user_list" /\ last'.outcome = "ok"
              /\ id \notin last'.block

\* C26, amended: a user created through registration comes to have
\* is_active true while email_verified is false only by a submission of the
\* user list that passed the manager check and did not name the user in
\* box_active; no registration and no email confirmation leaves a user
\* active and unverified who was not so before.
C26_UnverifiedActiveOnlyByBulkAction == [][C26_ActivationStep]_vars

\* The manager's submission of the user list made a registrant active who
\* never confirmed the email address.
C26_Witness ==
    /\ last.op = "user_list" /\ last.outcome = "ok"
    /\ \E id \in Registered :
           /\ id \notin last.block
           /\ users[id].is_active /\ ~users[id].email_verified

\* What C27 requires of every step.
C27_TokenStep ==
    /\ (last'.op = "confirm" /\ last'.outcome = "ok") =>
           /\ last'.uid \in DOMAIN users
           /\ last'.token.is_active = users[last'.uid].is_active
           /\ last'.token.email_verified = users[last'.uid].email_verified
    /\ (/\ last.op = "confirm" /\ last.outcome = "ok"
        /\ last'.op = "confirm"
        /\ last'.uid = last.uid /\ last'.token = last.token) =>
           last'.outcome = "invalid" /\ users' = users
    /\ (/\ last'.op = "confirm"
        /\ last'.uid \in DOMAIN users
        /\ last'.token = confirmation_token(last'.uid)
        /\ \/ users[last'.uid].is_active
           \/ users[last'.uid].email_verified) =>
           last'.outcome = "invalid" /\ users' = users
    /\ \A id \in DOMAIN users :
           users[id].email_verified =>
               id \in DOMAIN users' /\ users'[id].email_verified

\* C27: a confirmation token validates only while the user's is_active and
\* email_verified equal the values the token was issued with: the request
\* that follows a successful one with the same token is refused (and
\* email_verified, once set, stays set), and the token mailed at
\* registration is refused whenever the user's is_active or email_verified
\* is no longer false.
C27_TokenBoundToUserState == [][C27_TokenStep]_vars

\* The link mailed at registration was followed after a submission of the
\* user list had made the unconfirmed user active, and was refused.
C27_Witness ==
    /\ last.op = "confirm" /\ last.outcome = "invalid"
    /\ last.uid \in DOMAIN users
    /\ last.token = confirmation_token(last.uid)
    /\ users[last.uid].is_active /\ ~users[last.uid].email_verified

\* The link was followed a second time after it had activated the user,
\* and was refused.
C27_WitnessUsed ==
    /\ last.op = "confirm" /\ last.outcome = "invalid"
    /\ last.uid \in DOMAIN users
    /\ last.token = confirmation_token(last.uid)
    /\ users[last.uid].is_active /\ users[last.uid].email_verified
    /\ last.uid \notin Users

----------------------------------------------------------------------------
(* SpecSchedule: u1 creates, edits and disables newsletters of every     *)
(* schedule kind while the days pass and the scheduler runs the          *)
(* registered jobs (design document, section 4.1).                       *)

\* The days between two runs of a recurring job.
period(frequency) ==
    CASE frequency = "daily" -> 1
      [] frequency = "weekly" -> 7
      [] frequency = "monthly" -> 30
      [] OTHER -> 0

\* The days on which the newsletter was sent.
run_days(pk) == {log[i].date_time : i \in {j \in 1..Len(log) : log[j].newsletter = pk}}

\* A run on this day, at the trigger's time, is not after the trigger's end.
before_finish(trigger, day) ==
    \A m \in trigger.until : day < m[1] \/ (day = m[1] /\ trigger.time <= m[2])

\* The trigger fires on this day: a one-shot trigger whenever it is still
\* registered, a recurring one a period after its last run and not after
\* its end.
due(pk, trigger, day) ==
    IF trigger.frequency = "once" THEN TRUE
    ELSE /\ before_finish(trigger, day)
         /\ \A d \in run_days(pk) : day >= d + period(trigger.frequency)

\* The scheduler runs the job registered under pk: send_mail_to_client is
\* invoked for the newsletter; a one-shot job is then finished and leaves
\* the job store, a recurring one stays for its next run.
JobRuns(pk, failing) ==
    /\ exists(pk)
    /\ job_count(jobs, pk) > 0
    /\ due(pk, jobs[pk][1], today)
    /\ Len(log) < MaxLog
    /\ log' = Append(log, send_mail_to_client(pk, failing))
    /\ jobs' = IF jobs[pk][1].frequency = "once"
               THEN [jobs EXCEPT ![pk] = Tail(@)]
               ELSE jobs
    /\ Handled("job_runs", Anonymous, pk, "ok", None,
               job_count(jobs, pk), newsletters[pk].status)
    /\ UNCHANGED <<today, clients, newsletters, req, cmd, site>>

\* A recurring newsletter without a finish date.
Forever(frequency) == Form(1, None, None, frequency, {1}, {"m1"})

\* One-shot, daily and weekly without an end, daily until time 1 of day 2
\* (runs at time 2), monthly until time 2 of day 2 (runs at time 1).
ScheduleForms ==
    {OneShot({1}, {"m1"}), Forever("daily"), Forever("weekly"),
     Daily(2, {1}, {"m1"}), Form(1, {2}, {2}, "monthly", {1}, {"m1"})}

NextSchedule ==
    \/ \E f \in ScheduleForms : NewsletterCreateView("u1", f, TRUE)
    \/ \E pk \in NewsletterIds, f \in ScheduleForms :
           NewsletterUpdateView("u1", pk, f, TRUE)
    \/ \E pk \in NewsletterIds : NewsletterDeleteView("u1", pk)
    \/ \E pk \in NewsletterIds : JobRuns(pk, {})
    \/ Midnight

SpecSchedule == Init /\ [][NextSchedule]_vars

\* What C20 requires of every step.
C20_ScheduleStep ==
    /\ log' # log =>
           /\ last'.op = "job_runs"
           /\ Len(log') = Len(log) + 1
           /\ log'[Len(log')].newsletter = last'.pk
    /\ last'.op \in {"create", "update"} => log' = log
    /\ last'.op = "job_runs" =>
           LET pk == last'.pk
               n == newsletters[pk]
           IN /\ n.is_active
              /\ jobs[pk] = <<trigger_of(n)>>
              /\ n.frequency = "once" => job_count(jobs', pk) = 0
              /\ n.frequency # "once" =>
                     /\ jobs'[pk] = jobs[pk]
                     /\ \A d \in n.finish_date, t \in n.finish_time :
                            today < d \/ (today = d /\ n.time <= t)
                     /\ \A i \in 1..Len(log) :
                            log[i].newsletter = pk => log[i].date_time < today
                     /\ n.finish_date = None =>
                            \A day \in today..(today + MaxDay) :
                                before_finish(jobs'[pk][1], day)

C20_WitnessOnce ==
    /\ last.op = "job_runs"
    /\ newsletters[last.pk].frequency = "once"
    /\ newsletters[last.pk].is_active
    /\ job_count(jobs, last.pk) = 0
    /\ Len(log) = 1

\* The daily newsletter that ends at time 1 of day 2 was sent on day 1, and
\* on day 2 its job is registered but not due.
C20_WitnessFinished ==
    /\ today = 2
    /\ \E pk \in DOMAIN newsletters :
           /\ newsletters[pk].finish_date = {2}
           /\ newsletters[pk].frequency = "daily"
           /\ job_count(jobs, pk) = 1
           /\ run_days(pk) = {1}
           /\ ~due(pk, jobs[pk][1], today)

----------------------------------------------------------------------------
(* SpecRace: two request workers serve NewsletterUpdateView.post and      *)
(* NewsletterDeleteView.post concurrently, one statement of each handler   *)
(* per step.  req maps each worker to its position and local variables;    *)
(* the store starts with u1's scheduled newsletter 1.  last also keeps the *)
(* keys of the newsletters whose disable request has completed.            *)

Workers == {"w1", "w2"}

RaceHandled(op, u, pk, outcome, done) ==
    last' = [op |-> op, user |-> u, pk |-> pk, outcome |-> outcome,
             disabled |-> last.disabled \cup done]

\* The worker's request ends.
Respond(w) == req' = [req EXCEPT ![w] = IdleReq]

\* NewsletterUpdateView.post up to form.is_valid(): CreatorAccessMixin,
\* ActiveNewsletterMixin, get_object and the validation of the form (built
\* without a user).  The instance is now in the worker's memory.
NewsletterUpdateView_post(w, u, pk, f) ==
    /\ req[w].pc = "idle"
    /\ IF ~exists(pk)
       THEN RaceHandled("update", u, pk, "404", {}) /\ UNCHANGED req
       ELSE IF ~check_creator_access(newsletters[pk], u)
       THEN RaceHandled("update", u, pk, "forbidden", {}) /\ UNCHANGED req
       ELSE IF ~active_newsletter_access(newsletters[pk])
       THEN RaceHandled("update", u, pk, "inactive", {}) /\ UNCHANGED req
       ELSE IF ~newsletter_form_is_valid(f, None)
       THEN RaceHandled("update", u, pk, "invalid", {}) /\ UNCHANGED req
       ELSE /\ req' = [req EXCEPT ![w] =
                          [pc |-> "edit_valid", user |-> u, pk |-> pk, form |-> f,
                           newsletter |-> newsletters[pk]]]
            /\ UNCHANGED last
    /\ UNCHANGED <<today, clients, newsletters, jobs, log, cmd, site>>

\* newsletter = form.save(): the instance with the form's fields is written
\* as a whole row, with its many-to-many sets.
NewsletterUpdateView_form_save(w) ==
    LET n == form_save(req[w].newsletter, req[w].form)
    IN /\ req[w].pc = "edit_valid"
       /\ newsletters' = save(newsletters, req[w].pk, n)
       /\ req' = [req EXCEPT ![w].pc = "edit_saved", ![w].newsletter = n]
       /\ UNCHANGED <<today, clients, jobs, log, cmd, last, site>>

\* delivery_service.delete_task()
NewsletterUpdateView_delete_task(w) ==
    /\ req[w].pc = "edit_saved"
    /\ jobs' = delete_task(jobs, req[w].pk)
    /\ req' = [req EXCEPT ![w].pc = "edit_unscheduled"]
    /\ UNCHANGED <<today, clients, newsletters, log, cmd, last, site>>

\* delivery_service.create_task(): returns, or raises and ends the request.
NewsletterUpdateView_create_task(w, ok) ==
    /\ req[w].pc = "edit_unscheduled"
    /\ IF ok
       THEN /\ jobs' = create_task(jobs, req[w].pk, req[w].newsletter)
            /\ req' = [req EXCEPT ![w].pc = "edit_registered"]
            /\ UNCHANGED last
       ELSE /\ jobs' = jobs
            /\ Respond(w)
            /\ RaceHandled("update", req[w].user, req[w].pk, "error", {})
    /\ UNCHANGED <<today, clients, newsletters, log, cmd, site>>

\* newsletter.status = 'S'; newsletter.save(); the redirect.
NewsletterUpdateView_set_scheduled(w) ==
    /\ req[w].pc = "edit_registered"
    /\ newsletters' = save_instance(newsletters, req[w].pk,
                                    [req[w].newsletter EXCEPT !.status = "S"])
    /\ Respond(w)
    /\ RaceHandled("update", req[w].user, req[w].pk, "ok", {})
    /\ UNCHANGED <<today, clients, jobs, log, cmd, site>>

\* NewsletterDeleteView.post up to form_valid: CombinedAccessMixin and
\* ActiveNewsletterMixin.
NewsletterDeleteView_post(w, u, pk) ==
    /\ req[w].pc = "idle"
    /\ IF ~exists(pk)
       THEN RaceHandled("disable", u, pk, "404", {}) /\ UNCHANGED req
       ELSE IF ~check_access(newsletters[pk], u)
       THEN RaceHandled("disable", u, pk, "forbidden", {}) /\ UNCHANGED req
       ELSE IF ~active_newsletter_access(newsletters[pk])
       THEN RaceHandled("disable", u, pk, "inactive", {}) /\ UNCHANGED req
       ELSE /\ req' = [req EXCEPT ![w] =
                          [IdleReq EXCEPT !.pc = "disable_checked", !.user = u,
                                          !.pk = pk]]
            /\ UNCHANGED last
    /\ UNCHANGED <<today, clients, newsletters, jobs, log, cmd, site>>

\* newsletter = self.get_object()
NewsletterDeleteView_get_object(w) ==
    /\ req[w].pc = "disable_checked"
    /\ req' = [req EXCEPT ![w].pc = "disable_loaded",
                          ![w].newsletter = newsletters[req[w].pk]]
    /\ UNCHANGED <<today, clients, newsletters, jobs, log, cmd, last, site>>

\* delivery_service.delete_task()
NewsletterDeleteView_delete_task(w) ==
    /\ req[w].pc = "disable_loaded"
    /\ jobs' = delete_task(jobs, req[w].pk)
    /\ req' = [req EXCEPT ![w].pc = "disable_unscheduled"]
    /\ UNCHANGED <<today, clients, newsletters, log, cmd, last, site>>

\* newsletter.is_active = False; newsletter.save(); the redirect.
NewsletterDeleteView_save(w) ==
    /\ req[w].pc = "disable_unscheduled"
    /\ newsletters' = save_instance(newsletters, req[w].pk,
                                    [req[w].newsletter EXCEPT !.is_active = FALSE])
    /\ Respond(w)
    /\ RaceHandled("disable", req[w].user, req[w].pk, "ok", {req[w].pk})
    /\ UNCHANGED <<today, clients, jobs, log, cmd, site>>

\* u1's newsletter 1 as a completed creation leaves it.
ScheduledNewsletter ==
    [save_m2m(new_newsletter("u1", OneShot({1}, {"m1"})), OneShot({1}, {"m1"}))
        EXCEPT !.status = "S"]

InitRace ==
    /\ today = 1
    /\ clients = SeedClients
    /\ newsletters = save(<< >>, 1, ScheduledNewsletter)
    /\ jobs = create_task([k \in NewsletterIds |-> << >>], 1, ScheduledNewsletter)
    /\ log = << >>
    /\ req = [w \in Workers |-> IdleReq]
    /\ cmd = IdleCmd
    /\ last = [op |-> "none", user |-> Anonymous, pk |-> 0, outcome |-> "ok",
               disabled |-> {}]
    /\ InitSite

RaceForms == {OneShot({1}, {"m1"}), Daily(2, {1}, {"m1"}), Daily(1, {1}, {"m1"})}

NextRace ==
    \/ \E w \in Workers, u \in {"u1", "u2"}, pk \in NewsletterIds, f \in RaceForms :
           NewsletterUpdateView_post(w, u, pk, f)
    \/ \E w \in Workers : NewsletterUpdateView_form_save(w)
    \/ \E w \in Workers : NewsletterUpdateView_delete_task(w)
    \/ \E w \in Workers, ok \in BOOLEAN : NewsletterUpdateView_create_task(w, ok)
    \/ \E w \in Workers : NewsletterUpdateView_set_scheduled(w)
    \/ \E w \in Workers, u \in {"u1", "u2", "mgr"}, pk \in NewsletterIds :
           NewsletterDeleteView_post(w, u, pk)
    \/ \E w \in Workers : NewsletterDeleteView_get_object(w)
    \/ \E w \in Workers : NewsletterDeleteView_delete_task(w)
    \/ \E w \in Workers : NewsletterDeleteView_save(w)

SpecRace == InitRace /\ [][NextRace]_vars

\* C21: once a disable request for a newsletter has completed, no job is
\* registered under the newsletter's key in any later state, whatever other
\* requests are in flight.
C21_NoJobAfterDisable ==
    \A pk \in last.disabled : job_count(jobs, pk) = 0

\* C22: at most one job is registered under a newsletter's key in every
\* reachable state.
C22_AtMostOneJob ==
    \A pk \in NewsletterIds : job_count(jobs, pk) <= 1

----------------------------------------------------------------------------
(* SpecBulk: UserListView.post one statement per step (each queryset      *)
(* update is one statement of its own, committed when it returns), while   *)
(* people register and log in.  req holds the submitted lists and the      *)
(* users who were inactive when the request began.                         *)

IdleBulk ==
    [pc |-> "idle", user |-> Anonymous, superuser |-> FALSE, block |-> {},
     manager |-> {}, inactive_before |-> {}]

\* UserListView.post up to the parsing of box_active: ManagerAccessMixin
\* with request.user as the session loaded it.
UserListView_dispatch(u, box_active, box_manager) ==
    /\ req.pc = "idle"
    /\ IF ~(is_staff(u) \/ is_superuser(u))
       THEN /\ UserHandled("user_list", u, "forbidden", "-", Garbage, {}, box_active,
                           box_manager)
            /\ UNCHANGED req
       ELSE /\ req' = [pc |-> "parsed", user |-> u, superuser |-> is_superuser(u),
                       block |-> box_active, manager |-> box_manager,
                       inactive_before |-> {id \in DOMAIN users : ~users[id].is_active}]
            /\ UNCHANGED last
    /\ UNCHANGED <<today, clients, newsletters, jobs, log, cmd, site>>

\* UserManagerService.unblock_all_users()
UserListView_unblock_all_users ==
    /\ req.pc = "parsed"
    /\ users' = unblock_all_users(users)
    /\ req' = [req EXCEPT !.pc = "unblocked"]
    /\ UNCHANGED <<today, clients, newsletters, jobs, log, cmd, last,
                   messages, cache, settings, posts>>

\* UserManagerService.block_users(user_ids=user_ids_to_block)
UserListView_block_users ==
    /\ req.pc = "unblocked"
    /\ users' = block_users(users, req.block)
    /\ req' = [req EXCEPT !.pc = "blocked"]
    /\ UNCHANGED <<today, clients, newsletters, jobs, log, cmd, last,
                   messages, cache, settings, posts>>

\* The rest of UserListView.post: for a superuser the manager reset and
\* set_as_manager, then the message and the redirect.
UserListView_set_managers ==
    /\ req.pc = "blocked"
    /\ users' = IF req.superuser
                THEN set_as_manager(remove_manager_status_all_users(users), req.manager)
                ELSE users
    /\ req' = IdleBulk
    /\ UserHandled("user_list", req.user, "ok", "-", Garbage, {}, req.block, req.manager)
    /\ UNCHANGED <<today, clients, newsletters, jobs, log, cmd,
                   messages, cache, settings, posts>>

\* UserLoginView with the right password: AuthenticationForm lets an active
\* user in; for a user who is not active form_invalid reports the
\* unconfirmed email or the block.
UserLoginView(id) ==
    /\ IF id \notin DOMAIN users
       THEN UserHandled("login", id, "unknown", id, Garbage, {}, {}, {})
       ELSE IF users[id].is_active
       THEN UserHandled("login", id, "ok", id, Garbage, {id}, {}, {})
       ELSE IF ~users[id].email_verified
       THEN UserHandled("login", id, "unverified", id, Garbage, {}, {}, {})
       ELSE UserHandled("login", id, "blocked", id, Garbage, {}, {}, {})
    /\ UNCHANGED <<today, clients, newsletters, jobs, log, req, cmd, site>>

InitBulk ==
    /\ today = 1
    /\ clients = SeedClients
    /\ newsletters = << >>
    /\ jobs = [k \in NewsletterIds |-> << >>]
    /\ log = << >>
    /\ req = IdleBulk
    /\ cmd = IdleCmd
    /\ last = NoRequest
    /\ InitSite

NextBulk ==
    \/ \E s \in Requesters, box_active \in BlockSets, box_manager \in ManagerSets :
           UserListView_dispatch(request_user(s), box_active, box_manager)
    \/ UserListView_unblock_all_users
    \/ UserListView_block_users
    \/ UserListView_set_managers
    \/ \E id \in UserIds : UserLoginView(id)
    \/ \E valid, sent \in BOOLEAN : UserRegisterView(valid, sent)

SpecBulk == InitBulk /\ [][NextBulk]_vars

\* C28: while a submission of the user list is being handled, no concurrent
\* login lets in a user who was inactive before the submission and is named
\* in its box_active.
C28_BlockedStayBlocked ==
    (/\ req.pc # "idle"
     /\ last.op = "login"
     /\ last.user \in req.block
     /\ last.user \in req.inactive_before) => last.outcome # "ok"

----------------------------------------------------------------------------
(* SpecBlog: two request workers serve PostDetailView concurrently, one    *)
(* statement per step.  req maps each worker to its position and the post  *)
(* instance it loaded; last counts the detail requests served per post.    *)

\* The number of detail requests served per post.
MaxViews == 3

PostIds == {1, 2, 3}

IdleView == [pc |-> "idle", pk |-> 0, post |-> [views_count |-> 0]]

NoViews == [op |-> "none", pk |-> 0, outcome |-> "ok", served |-> [pk \in PostIds |-> 0]]

\* super().get_object(queryset=queryset): the post is read into memory, or
\* the request ends with a 404.
PostDetailView_get_object(w, pk) ==
    /\ req[w].pc = "idle"
    /\ last.served[pk] + Cardinality({v \in Workers : req[v].pk = pk}) < MaxViews
    /\ IF pk \notin DOMAIN posts
       THEN /\ last' = [last EXCEPT !.op = "post_detail", !.pk = pk, !.outcome = "404"]
            /\ UNCHANGED req
       ELSE /\ req' = [req EXCEPT ![w] = [pc |-> "loaded", pk |-> pk, post |-> posts[pk]]]
            /\ UNCHANGED last
    /\ UNCHANGED <<today, clients, newsletters, jobs, log, cmd,
                   messages, users, cache, settings, posts>>

\* Post.increment_view_count: self.views_count += 1; self.save()
increment_view_count(table, pk, obj) ==
    save(table, pk, [obj EXCEPT !.views_count = @ + 1])

\* obj.increment_view_count(); return obj: the page is rendered.
PostDetailView_increment_view_count(w) ==
    /\ req[w].pc = "loaded"
    /\ posts' = increment_view_count(posts, req[w].pk, req[w].post)
    /\ req' = [req EXCEPT ![w] = IdleView]
    /\ last' = [op |-> "post_detail", pk |-> req[w].pk, outcome |-> "shown",
                served |-> [last.served EXCEPT ![req[w].pk] = @ + 1]]
    /\ UNCHANGED <<today, clients, newsletters, jobs, log, cmd,
                   messages, users, cache, settings>>

InitBlog ==
    /\ today = 1
    /\ clients = SeedClients
    /\ newsletters = << >>
    /\ jobs = [k \in NewsletterIds |-> << >>]
    /\ log = << >>
    /\ req = [w \in Workers |-> IdleView]
    /\ cmd = IdleCmd
    /\ last = NoViews
    /\ InitSite

NextBlog ==
    \/ \E w \in Workers, pk \in PostIds : PostDetailView_get_object(w, pk)
    \/ \E w \in Workers : PostDetailView_increment_view_count(w)

SpecBlog == InitBlog /\ [][NextBlog]_vars

\* C29: once k detail requests for a post have been served, in any
\* interleaving, the post's views_count has increased by exactly k.
C29_EveryViewCounted ==
    \A pk \in DOMAIN posts :
        (\A w \in Workers : req[w].pk # pk) =>
            posts[pk].views_count = SeedPosts[pk].views_count + last.served[pk]

====
